---- MODULE Spec2Model ----
(***************************************************************************)
(* Model of the resource reservation engine of osmo-gsm-tester             *)
(* (src/osmo_gsm_tester/core/resource.py): the matcher (item_matches,      *)
(* Resources.find), the allocation solver (solve), the reservation record  *)
(* kept in the state file (ResourcesPool.reserve / free) and the per-handle *)
(* active-use layer (ReservedResources.get / put / put_all / free).         *)
(*                                                                         *)
(* Four specifications share the module:                                   *)
(*   SpecSolve  the solver as a pure function over candidate lists;        *)
(*   Spec       pools reserving and freeing, every call one atomic action; *)
(*   SpecUse    one handle and the get/put/put_all/free calls on it;       *)
(*   SpecConc   two processes whose reserve()/free() run step by step      *)
(*              (lock, read state file, compute and write, unlock).        *)
(***************************************************************************)
EXTENDS Integers, Sequences, FiniteSets

VARIABLES
    \* ---- SpecSolve
    all_matches,   \* the argument of solve(): a list of index lists
    solved,        \* the outcome of solve(all_matches), or NotRun
    \* ---- Spec
    file,          \* reserved_resources.state: the Reservation Record
    pools,         \* per process: the ResourcesPool's _remember_to_free and exit handler flag
    handles,       \* the ReservedResources objects created so far
    last,          \* the most recent call: operation, arguments, return value or exception
    \* ---- SpecConc
    locks,         \* the names of the locks currently held
    procs,         \* per process: its position in reserve()/free() and the record it read
    \* ---- SpecCounter
    tokens         \* per token: the content of last_used_<token>.state

vars == <<all_matches, solved, file, pools, handles, last, locks, procs, tokens>>

solveVars == <<all_matches, solved>>
seqVars == <<file, pools, handles, last>>
concVars == <<locks, procs>>
counterVars == <<tokens>>

(***************************************************************************)
(* Values.  A python value is a tagged record: None, a scalar, a dict (a   *)
(* function from key to value) or a list (a sequence of values).           *)
(***************************************************************************)
VNone == [t |-> "none"]
VStr(s) == [t |-> "str", v |-> s]
VDict(f) == [t |-> "dict", v |-> f]
VList(q) == [t |-> "list", v |-> q]

EmptyDict == [k \in {} |-> VNone]

is_dict(x) == x.t = "dict"
is_list(x) == x.t = "list"

\* dict.get(key): None when the key is absent
dict_get(d, key) == IF key \in DOMAIN d.v THEN d.v[key] ELSE VNone

\* util.list_validate_same_elem_type: the type of the elements, None for an empty list
list_validate_same_elem_type(li) ==
    IF Len(li) = 0 THEN "none" ELSE li[1].t

\* util.empty_instance_type: {} for dict, [] for list
empty_instance_type(t) ==
    IF t = "dict" THEN VDict(EmptyDict) ELSE VList(<<>>)

\* Variant of item_matches that takes an attribute the item lacks as matching
RECURSIVE item_matches_absent_ok(_, _)
item_matches_absent_ok(item, wanted_item) ==
    IF is_dict(wanted_item) THEN
        /\ is_dict(item)
        /\ \A key \in DOMAIN wanted_item.v \cap DOMAIN item.v :
              item_matches_absent_ok(item.v[key], wanted_item.v[key])
    ELSE item = wanted_item

\* Variant of item_matches that compares lists of scalars position by position
RECURSIVE item_matches_ordered(_, _)
item_matches_ordered(item, wanted_item) ==
    IF is_dict(wanted_item) THEN
        /\ is_dict(item)
        /\ \A key \in DOMAIN wanted_item.v :
              item_matches_ordered(dict_get(item, key), wanted_item.v[key])
    ELSE IF is_list(wanted_item) THEN
        /\ is_list(item)
        /\ LET t == list_validate_same_elem_type(wanted_item.v \o item.v)
               n == IF Len(wanted_item.v) > Len(item.v)
                    THEN Len(wanted_item.v) ELSE Len(item.v)
           IN  IF t = "none" THEN TRUE
               ELSE IF t \in {"dict", "list"} THEN
                   \A i \in 1..n :
                      item_matches_ordered(
                        IF i <= Len(item.v) THEN item.v[i] ELSE empty_instance_type(t),
                        IF i <= Len(wanted_item.v) THEN wanted_item.v[i]
                                                   ELSE empty_instance_type(t))
               ELSE \A i \in 1..Len(wanted_item.v) :
                      i <= Len(item.v) /\ item.v[i] = wanted_item.v[i]
    ELSE item = wanted_item

RECURSIVE item_matches(_, _)
item_matches(item, wanted_item) ==
    IF is_dict(wanted_item) THEN
        /\ is_dict(item)
        /\ \A key \in DOMAIN wanted_item.v :
              item_matches(dict_get(item, key), wanted_item.v[key])
    ELSE IF is_list(wanted_item) THEN
        /\ is_list(item)
        /\ LET t == list_validate_same_elem_type(wanted_item.v \o item.v)
               n == IF Len(wanted_item.v) > Len(item.v)
                    THEN Len(wanted_item.v) ELSE Len(item.v)
           IN  IF t = "none" THEN TRUE
               ELSE IF t \in {"dict", "list"} THEN
                   \A i \in 1..n :
                      item_matches(
                        IF i <= Len(item.v) THEN item.v[i] ELSE empty_instance_type(t),
                        IF i <= Len(wanted_item.v) THEN wanted_item.v[i]
                                                   ELSE empty_instance_type(t))
               ELSE \A i \in 1..Len(wanted_item.v) :
                      \E j \in 1..Len(item.v) : item.v[j] = wanted_item.v[i]
    ELSE item = wanted_item

(***************************************************************************)
(* The allocation solver.  Indexes are 0-based as in the source; None is   *)
(* modelled by the empty list, which the source's `if r:` and              *)
(* `if not solution:` treat alike.                                         *)
(***************************************************************************)
SeqContains(s, x) == \E i \in 1..Len(s) : s[i] = x

\* the for-loop of search_in_permutations from position i of all_matches[idx]
RECURSIVE search_from(_, _, _)
search_from(am, fixed, i) ==
    LET idx == Len(fixed) + 1
    IN  IF i > Len(am[idx]) THEN <<>>
        ELSE LET val == am[idx][i]
             IN  IF SeqContains(fixed, val) THEN search_from(am, fixed, i + 1)
                 ELSE LET l == Append(fixed, val)
                      IN  IF Len(l) = Len(am) THEN l
                          ELSE LET r == search_from(am, l, 1)
                               IN  IF r # <<>> THEN r
                                   ELSE search_from(am, fixed, i + 1)

\* Variant of the search that tries the candidates of a slot last to first
RECURSIVE search_from_rev(_, _, _)
search_from_rev(am, fixed, i) ==
    LET idx == Len(fixed) + 1
    IN  IF i < 1 THEN <<>>
        ELSE LET val == am[idx][i]
             IN  IF SeqContains(fixed, val) THEN search_from_rev(am, fixed, i - 1)
                 ELSE LET l == Append(fixed, val)
                      IN  IF Len(l) = Len(am) THEN l
                          ELSE LET r == search_from_rev(am, l, Len(am[Len(l) + 1]))
                               IN  IF r # <<>> THEN r
                                   ELSE search_from_rev(am, fixed, i - 1)

search_in_permutations_rev(am, fixed) == search_from_rev(am, fixed, Len(am[Len(fixed) + 1]))

search_in_permutations(am, fixed) == search_from(am, fixed, 1)

\* Variant of solve that gives every slot its first candidate, taken or not
solve_no_distinct(am) ==
    IF am = <<>> THEN [exn |-> "RuntimeError", solution |-> <<>>]
    ELSE IF \E i \in 1..Len(am) : am[i] = <<>>
    THEN [exn |-> "NotSolvable", solution |-> <<>>]
    ELSE [exn |-> "", solution |-> [i \in 1..Len(am) |-> am[i][1]]]

\* Variant of solve without backtracking: every slot takes its first candidate
\* that no earlier slot took
RECURSIVE first_fit(_, _)
first_fit(am, fixed) ==
    IF Len(fixed) = Len(am) THEN fixed
    ELSE LET list == am[Len(fixed) + 1]
             free == {i \in 1..Len(list) : ~SeqContains(fixed, list[i])}
         IN  IF free = {} THEN <<>>
             ELSE first_fit(am, Append(fixed, list[CHOOSE i \in free : \A j \in free : i <= j]))

solve_first_fit(am) ==
    IF am = <<>> THEN [exn |-> "RuntimeError", solution |-> <<>>]
    ELSE IF first_fit(am, <<>>) = <<>> THEN [exn |-> "NotSolvable", solution |-> <<>>]
    ELSE [exn |-> "", solution |-> first_fit(am, <<>>)]

solve(am) ==
    IF am = <<>> THEN [exn |-> "RuntimeError", solution |-> <<>>]
    ELSE LET solution == search_in_permutations(am, <<>>)
         IN  IF solution = <<>> THEN [exn |-> "NotSolvable", solution |-> <<>>]
             ELSE [exn |-> "", solution |-> solution]

(***************************************************************************)
(* Resource items and Resources dicts.  An item is a dict; its semantic    *)
(* attributes are kept in attrs and the three reserved keys (_hash,        *)
(* _reserved_by, _used) in fields of their own.  `used` is TRUE exactly    *)
(* when the _used key is present (it is only ever set to True or popped).  *)
(* A Resources dict is a function from the kinds it has as keys to lists   *)
(* of items; its keys are visited in sorted order, the order in which      *)
(* find() inserts them.                                                    *)
(***************************************************************************)
NoHash == [alg |-> "none"]
NotReserved == "-"

\* util.hash_obj(item, HASH_KEY, RESERVED_KEY, USED_KEY): a fingerprint of the
\* semantic attributes alone
hash_obj(attrs) == [alg |-> "sha1", of |-> attrs]

Kinds == {"bts", "modem"}
KindSeq == <<"bts", "modem">>

EmptyResources == [k \in {} |-> <<>>]

\* the keys of a Resources dict, in iteration order
Keys(r) == SelectSeq(KindSeq, LAMBDA k : k \in DOMAIN r)

Min(S) == CHOOSE m \in S : \A o \in S : m <= o

RECURSIVE SortedSeq(_)
SortedSeq(S) == IF S = {} THEN <<>>
                ELSE <<Min(S)>> \o SortedSeq(S \ {Min(S)})

RemoveAt(s, i) == SubSeq(s, 1, i - 1) \o SubSeq(s, i + 1, Len(s))

\* Resources.drop, the loop over reserved_list from its position j: each item
\* removes the first item of my_list with its hash
RECURSIVE drop_items(_, _, _)
drop_items(my_list, reserved_list, j) ==
    IF j > Len(reserved_list) THEN [exn |-> "", list |-> my_list]
    ELSE LET reserved_hash == reserved_list[j].hash
             hits == {i \in 1..Len(my_list) :
                         my_list[i].hash = NoHash \/ my_list[i].hash = reserved_hash}
         IN  IF reserved_hash = NoHash \/ hits = {}
             THEN [exn |-> "RuntimeError", list |-> my_list]
             ELSE IF my_list[Min(hits)].hash = NoHash
             THEN [exn |-> "RuntimeError", list |-> my_list]
             ELSE drop_items(RemoveAt(my_list, Min(hits)), reserved_list, j + 1)

\* Resources.drop, the loop over the keys of `reserved` from the n-th key.  On an
\* exception res is self as mutated so far.
RECURSIVE drop_keys(_, _, _)
drop_keys(self, reserved, n) ==
    IF n > Len(Keys(reserved)) THEN [exn |-> "", res |-> self]
    ELSE LET key == Keys(reserved)[n]
             my_list == IF key \in DOMAIN self THEN self[key] ELSE <<>>
             r == drop_items(my_list, reserved[key], 1)
             kept == IF key \in DOMAIN self THEN [self EXCEPT ![key] = r.list] ELSE self
         IN  IF r.exn # "" THEN [exn |-> r.exn, res |-> kept]
             ELSE IF r.list # <<>> THEN drop_keys(kept, reserved, n + 1)
             ELSE IF key \in DOMAIN self
             THEN drop_keys([k \in DOMAIN self \ {key} |-> self[k]], reserved, n + 1)
             ELSE [exn |-> "KeyError", res |-> self]

\* Resources.drop(reserved) with fail_if_not_found at its default, as every caller
\* leaves it
drop(self, reserved) == drop_keys(self, reserved, 1)

\* Resources.without(reserved): drop on a copy
without(self, reserved) == drop(self, reserved)

\* Resources.add(more): schema.add extends the list of a key that is present and
\* sets the list of a key that is absent
add(self, more) ==
    [k \in DOMAIN self \cup DOMAIN more |->
        IF k \notin DOMAIN more THEN self[k]
        ELSE IF k \in DOMAIN self THEN self[k] \o more[k]
        ELSE more[k]]

\* Variant of mark_reserved_by that leaves the items unstamped
mark_reserved_by_nobody(self, origin_id) == self

\* Resources.mark_reserved_by: every item gets RESERVED_KEY = origin_id
mark_reserved_by(self, origin_id) ==
    [k \in DOMAIN self |->
        [i \in 1..Len(self[k]) |-> [self[k][i] EXCEPT !.reserved_by = origin_id]]]

\* Resources.find, lines 295-301: the 0-based indexes of the items of my_list that
\* match want_item, ascending
item_match_list(my_list, want_item, skip_if_marked) ==
    SortedSeq({i \in 0..(Len(my_list) - 1) :
                  /\ ~(skip_if_marked /\ my_list[i + 1].used)
                  /\ item_matches(VDict(my_list[i + 1].attrs), want_item)})

\* Variant of the loop body of find that lets the solver's NotSolvable through
find_kind_uncaught(my_list, want_list, skip_if_marked, raise_if_missing) ==
    LET lists == [s \in 1..Len(want_list) |->
                     item_match_list(my_list, want_list[s], skip_if_marked)]
        missing == \E s \in 1..Len(want_list) : lists[s] = <<>>
    IN  IF missing /\ raise_if_missing
        THEN [exn |-> "NoResourceExn", why |-> "no_match", sol |-> <<>>]
        ELSE IF missing \/ want_list = <<>>
        THEN [exn |-> "", why |-> "", sol |-> <<>>]
        ELSE [exn |-> solve(lists).exn, why |-> "", sol |-> solve(lists).solution]

\* Variant of the loop body of find that, with raise_if_missing off, still picks
\* items for the slots that have candidates
find_kind_partial(my_list, want_list, skip_if_marked, raise_if_missing) ==
    LET lists == [s \in 1..Len(want_list) |->
                     item_match_list(my_list, want_list[s], skip_if_marked)]
        missing == \E s \in 1..Len(want_list) : lists[s] = <<>>
        found == SelectSeq(lists, LAMBDA l : l # <<>>)
    IN  IF missing /\ raise_if_missing
        THEN [exn |-> "NoResourceExn", why |-> "no_match", sol |-> <<>>]
        ELSE IF found = <<>>
        THEN [exn |-> "", why |-> "", sol |-> <<>>]
        ELSE LET r == solve(found)
             IN  IF r.exn = "NotSolvable"
                 THEN [exn |-> "NoResourceExn", why |-> "not_solvable", sol |-> <<>>]
                 ELSE [exn |-> r.exn, why |-> "", sol |-> r.solution]

\* Resources.find, the body of the loop over kinds: the indexes picked for one kind
find_kind(my_list, want_list, skip_if_marked, raise_if_missing) ==
    LET lists == [s \in 1..Len(want_list) |->
                     item_match_list(my_list, want_list[s], skip_if_marked)]
        missing == \E s \in 1..Len(want_list) : lists[s] = <<>>
    IN  IF missing /\ raise_if_missing
        THEN [exn |-> "NoResourceExn", why |-> "no_match", sol |-> <<>>]
        ELSE IF missing \/ want_list = <<>>
        THEN [exn |-> "", why |-> "", sol |-> <<>>]
        ELSE LET r == solve(lists)
             IN  IF r.exn = "NotSolvable"
                 THEN [exn |-> "NoResourceExn", why |-> "not_solvable", sol |-> <<>>]
                 ELSE [exn |-> r.exn, why |-> "", sol |-> r.solution]

\* Resources.find: per kind of want the picked indexes, or the exception of the
\* first kind (in sorted order) that fails
find_idx(self, want, skip_if_marked, raise_if_missing) ==
    LET per == [k \in DOMAIN want |->
                   find_kind(IF k \in DOMAIN self THEN self[k] ELSE <<>>,
                             want[k], skip_if_marked, raise_if_missing)]
        bad == SelectSeq(Keys(want), LAMBDA k : per[k].exn # "")
    IN  IF bad # <<>>
        THEN [exn |-> per[bad[1]].exn, why |-> per[bad[1]].why, idx |-> EmptyResources]
        ELSE [exn |-> "", why |-> "", idx |-> [k \in DOMAIN want |-> per[k].sol]]

\* Resources.find: what the message of the NoResourceExn it raises names: the kind
\* and, when the solver failed, the whole want_list of the kind, else the
\* want_item without candidate
find_raised(self, want, skip_if_marked, raise_if_missing) ==
    LET per == [k \in DOMAIN want |->
                   find_kind(IF k \in DOMAIN self THEN self[k] ELSE <<>>,
                             want[k], skip_if_marked, raise_if_missing)]
        bad == SelectSeq(Keys(want), LAMBDA k : per[k].exn # "")
    IN  IF bad = <<>> THEN [kind |-> "", requirements |-> <<>>]
        ELSE IF per[bad[1]].why = "not_solvable"
        THEN [kind |-> bad[1], requirements |-> want[bad[1]]]
        ELSE LET my_list == IF bad[1] \in DOMAIN self THEN self[bad[1]] ELSE <<>>
                 unmet == {s \in 1..Len(want[bad[1]]) :
                              item_match_list(my_list, want[bad[1]][s], skip_if_marked) = <<>>}
             IN  [kind |-> bad[1],
                  requirements |-> IF unmet = {} THEN <<>> ELSE <<want[bad[1]][Min(unmet)]>>]

find(self, want, skip_if_marked, raise_if_missing) ==
    LET f == find_idx(self, want, skip_if_marked, raise_if_missing)
    IN  [exn |-> f.exn, why |-> f.why,
         res |-> [k \in DOMAIN f.idx |->
                    [i \in 1..Len(f.idx[k]) |-> self[k][f.idx[k][i] + 1]]]]

(***************************************************************************)
(* Bounds and inputs.                                                      *)
(***************************************************************************)
\* SpecSolve: candidate indexes are 0..MaxIdx-1, at most MaxSlots candidate lists
MaxIdx == 3
MaxSlots == 3
\* Spec: the number of ReservedResources handles created in one run
MaxHandles == 2

\* the processes sharing the state directory; each has one pool and one origin
Procs == {"p1", "p2"}

\* log.Origin.origin_id: '<name>-<process id>'
origin_id(p) == "suite-" \o p

AnyItem == VDict(EmptyDict)
Typed(x) == VDict([type |-> VStr(x)])

\* resources.conf as read_conf() loads it: the attributes of every item, per kind
Conf == [bts   |-> <<[type |-> VStr("sysmo")]>>,
         modem |-> <<[type |-> VStr("a")], [type |-> VStr("b")]>>]

\* ResourcesPool.read_conf: the catalog, every item stamped with its hash
all_resources ==
    [k \in DOMAIN Conf |->
        [i \in 1..Len(Conf[k]) |->
            [attrs |-> Conf[k][i], hash |-> hash_obj(Conf[k][i]),
             reserved_by |-> NotReserved, used |-> FALSE]]]

\* the `want` arguments of reserve()
Wants ==
    { [bts |-> <<AnyItem>>],
      [modem |-> <<AnyItem>>],
      [modem |-> <<AnyItem, Typed("a")>>],
      [bts |-> <<AnyItem>>, modem |-> <<Typed("b")>>],
      [bts |-> <<AnyItem>>, modem |-> <<Typed("a"), Typed("a")>>],
      [modem |-> <<>>] }

\* the `modifiers` arguments of reserve(): none, or, for a request of two modems,
\* a new type for the first one
NoModifiers == EmptyResources
Modifiers(want) ==
    {NoModifiers} \cup
    (IF "modem" \in DOMAIN want /\ "bts" \notin DOMAIN want /\ Len(want["modem"]) = 2
     THEN {[modem |-> <<[type |-> VStr("x")]>>]} ELSE {})

\* the `specifics` arguments of get()
Specifics == {AnyItem, Typed("a")}

\* config.overlay(reserved, modifiers): each modifier entry is laid over the
\* attributes of the item at its position
overlay_attrs(attrs, m) ==
    [a \in DOMAIN attrs \cup DOMAIN m |-> IF a \in DOMAIN m THEN m[a] ELSE attrs[a]]

overlay(reserved, modifiers) ==
    [k \in DOMAIN reserved |->
        [i \in 1..Len(reserved[k]) |->
            IF k \in DOMAIN modifiers /\ i <= Len(modifiers[k])
            THEN [reserved[k][i] EXCEPT !.attrs = overlay_attrs(@, modifiers[k][i])]
            ELSE reserved[k][i]]]

(***************************************************************************)
(* ResourcesPool: the auto-release registry (_remember_to_free, None until *)
(* the first reservation) and the exit handler flag.                       *)
(***************************************************************************)
NoneResources == [set |-> FALSE, res |-> EmptyResources]
SomeResources(r) == [set |-> TRUE, res |-> r]

\* python truth of an optional Resources dict: neither None nor without keys
Truthy(o) == o.set /\ DOMAIN o.res # {}

NewPool == [remember |-> NoneResources, registered |-> FALSE]

\* ResourcesPool.remember_to_free, with register_exit_handler
remember_to_free(pool, to_be_reserved) ==
    [registered |-> TRUE,
     remember |-> SomeResources(
         add(IF Truthy(pool.remember) THEN pool.remember.res ELSE EmptyResources,
             to_be_reserved))]

\* Variant of forget_freed that leaves the registry as it is
forget_freed_nothing(pool, freed, same) == [exn |-> "", pool |-> pool]

\* ResourcesPool.forget_freed, with unregister_exit_handler; `same` says that
\* freed is the registry object itself.  On an exception the registry keeps what
\* drop() had removed so far.
forget_freed(pool, freed, same) ==
    LET d == IF same THEN [exn |-> "", res |-> EmptyResources]
             ELSE IF ~pool.remember.set THEN [exn |-> "AttributeError", res |-> EmptyResources]
             ELSE drop(pool.remember.res, freed)
    IN  IF d.exn = "AttributeError" THEN [exn |-> d.exn, pool |-> pool]
        ELSE IF d.exn # ""
        THEN [exn |-> d.exn, pool |-> [pool EXCEPT !.remember = SomeResources(d.res)]]
        ELSE [exn |-> "",
              pool |-> [remember |-> SomeResources(d.res),
                        registered |-> pool.registered /\ DOMAIN d.res # {}]]

\* Variant of reserve that skips a kind it cannot satisfy and reserves the rest
reserve_partial(record, pool, origin, want) ==
    LET avail == without(all_resources, record)
        f == IF avail.exn # "" THEN [exn |-> avail.exn, why |-> "", res |-> EmptyResources]
             ELSE find(avail.res, want, FALSE, FALSE)
        to_be_reserved == mark_reserved_by(f.res, origin)
    IN  IF f.exn # ""
        THEN [exn |-> f.exn, why |-> f.why, written |-> FALSE, record |-> record,
              pool |-> pool, to_be_reserved |-> EmptyResources]
        ELSE [exn |-> "", why |-> "", written |-> TRUE,
              record |-> add(record, to_be_reserved),
              pool |-> remember_to_free(pool, to_be_reserved),
              to_be_reserved |-> to_be_reserved]

\* Variant of reserve that searches the whole catalog, reserved items included
reserve_ignoring_record(record, pool, origin, want) ==
    LET f == find(all_resources, want, FALSE, TRUE)
        to_be_reserved == mark_reserved_by(f.res, origin)
    IN  IF f.exn # ""
        THEN [exn |-> f.exn, why |-> f.why, written |-> FALSE, record |-> record,
              pool |-> pool, to_be_reserved |-> EmptyResources]
        ELSE [exn |-> "", why |-> "", written |-> TRUE,
              record |-> add(record, to_be_reserved),
              pool |-> remember_to_free(pool, to_be_reserved),
              to_be_reserved |-> to_be_reserved]

\* ResourcesPool.reserve between taking and releasing the lock: `record` is the
\* state file as read.  written says whether config.write was reached.
reserve(record, pool, origin, want) ==
    LET avail == without(all_resources, record)
        f == IF avail.exn # "" THEN [exn |-> avail.exn, why |-> "", res |-> EmptyResources]
             ELSE find(avail.res, want, FALSE, TRUE)
        to_be_reserved == mark_reserved_by(f.res, origin)
    IN  IF f.exn # ""
        THEN [exn |-> f.exn, why |-> f.why, written |-> FALSE, record |-> record,
              pool |-> pool, to_be_reserved |-> EmptyResources]
        ELSE [exn |-> "", why |-> "", written |-> TRUE,
              record |-> add(record, to_be_reserved),
              pool |-> remember_to_free(pool, to_be_reserved),
              to_be_reserved |-> to_be_reserved]

\* Variant of free that does not write the record back
free_without_write(record, pool, to_be_freed, same) ==
    LET d == drop(record, to_be_freed)
        fg == forget_freed(pool, to_be_freed, same)
    IN  IF d.exn # ""
        THEN [exn |-> d.exn, written |-> FALSE, record |-> record, pool |-> pool]
        ELSE [exn |-> fg.exn, written |-> FALSE, record |-> record, pool |-> fg.pool]

\* Variant of free that skips the items it does not find (fail_if_not_found off)
free_ignoring_missing(record, pool, to_be_freed, same) ==
    LET rest == [k \in DOMAIN record |->
                    SelectSeq(record[k],
                              LAMBDA it : k \in DOMAIN to_be_freed =>
                                             \A j \in 1..Len(to_be_freed[k]) :
                                                 to_be_freed[k][j].hash # it.hash)]
    IN  [exn |-> "", written |-> TRUE,
         record |-> [k \in {x \in DOMAIN rest : rest[x] # <<>>} |-> rest[k]],
         pool |-> pool]

\* ResourcesPool.free between taking and releasing the lock
free(record, pool, to_be_freed, same) ==
    LET d == drop(record, to_be_freed)
        fg == forget_freed(pool, to_be_freed, same)
    IN  IF d.exn # ""
        THEN [exn |-> d.exn, written |-> FALSE, record |-> record, pool |-> pool]
        ELSE [exn |-> fg.exn, written |-> TRUE, record |-> d.res, pool |-> fg.pool]

(***************************************************************************)
(* ReservedResources: the handle.                                          *)
(***************************************************************************)
\* ReservedResources.__init__
NewHandle(p, reserved, modifiers) ==
    [pool |-> p,
     reserved_original |-> SomeResources(reserved),
     reserved |-> overlay(reserved, modifiers)]

UsedCount(list) == Cardinality({i \in 1..Len(list) : list[i].used})

\* Variant of get that does not skip the items marked used
get_no_skip(reserved, kind, specifics) ==
    LET want == [k \in {kind} |-> <<specifics>>]
        available == find_idx(reserved, want, FALSE, FALSE).idx[kind]
        pos == available[1] + 1
    IN  IF available = <<>>
        THEN [exn |-> "NoResourceExn", why |-> "none_match", reserved |-> reserved,
              pos |-> 0, ret |-> VNone]
        ELSE [exn |-> "", why |-> "",
              reserved |-> [reserved EXCEPT ![kind][pos].used = TRUE],
              pos |-> pos,
              ret |-> [reserved[kind][pos] EXCEPT !.used = TRUE]]

\* Variant of get whose error message looks for matches among the unused items only
get_matching_unused(reserved, kind, specifics) ==
    LET want == [k \in {kind} |-> <<specifics>>]
        available == find_idx(reserved, want, TRUE, FALSE).idx[kind]
        kind_reserved == IF kind \in DOMAIN reserved THEN reserved[kind] ELSE <<>>
        used_count == UsedCount(kind_reserved)
        matching == find_idx(reserved, want, TRUE, FALSE).idx[kind]
        msg == IF matching = <<>> THEN "none_match"
               ELSE IF ~(used_count < Len(kind_reserved)) THEN "reserved_only"
               ELSE "all_in_use"
        pos == available[1] + 1
    IN  IF available = <<>>
        THEN [exn |-> "NoResourceExn", why |-> msg, reserved |-> reserved,
              pos |-> 0, ret |-> VNone]
        ELSE [exn |-> "", why |-> "",
              reserved |-> [reserved EXCEPT ![kind][pos].used = TRUE],
              pos |-> pos,
              ret |-> [reserved[kind][pos] EXCEPT !.used = TRUE]]

\* Variant of get whose error message compares the used count with the number of
\* matching items instead of the number of reserved items of the kind
get_counts_matching(reserved, kind, specifics) ==
    LET want == [k \in {kind} |-> <<specifics>>]
        available == find_idx(reserved, want, TRUE, FALSE).idx[kind]
        kind_reserved == IF kind \in DOMAIN reserved THEN reserved[kind] ELSE <<>>
        used_count == UsedCount(kind_reserved)
        matching == find_idx(reserved, want, FALSE, FALSE).idx[kind]
        msg == IF matching = <<>> THEN "none_match"
               ELSE IF ~(used_count < Len(matching)) THEN "reserved_only"
               ELSE "all_in_use"
        pos == available[1] + 1
    IN  IF available = <<>>
        THEN [exn |-> "NoResourceExn", why |-> msg, reserved |-> reserved,
              pos |-> 0, ret |-> VNone]
        ELSE [exn |-> "", why |-> "",
              reserved |-> [reserved EXCEPT ![kind][pos].used = TRUE],
              pos |-> pos,
              ret |-> [reserved[kind][pos] EXCEPT !.used = TRUE]]

\* Variant of get that picks the last of the available items
get_picks_last(reserved, kind, specifics) ==
    LET want == [k \in {kind} |-> <<specifics>>]
        kind_reserved == IF kind \in DOMAIN reserved THEN reserved[kind] ELSE <<>>
        available == item_match_list(kind_reserved, specifics, TRUE)
        used_count == UsedCount(kind_reserved)
        matching == find_idx(reserved, want, FALSE, FALSE).idx[kind]
        msg == IF matching = <<>> THEN "none_match"
               ELSE IF ~(used_count < Len(kind_reserved)) THEN "reserved_only"
               ELSE "all_in_use"
        pos == available[Len(available)] + 1
    IN  IF available = <<>>
        THEN [exn |-> "NoResourceExn", why |-> msg, reserved |-> reserved,
              pos |-> 0, ret |-> VNone]
        ELSE [exn |-> "", why |-> "",
              reserved |-> [reserved EXCEPT ![kind][pos].used = TRUE],
              pos |-> pos,
              ret |-> [reserved[kind][pos] EXCEPT !.used = TRUE]]

\* ReservedResources.get on the handle's reserved dict: the exception, or the
\* position (1-based) of the picked item, the dict with it marked and the copy
\* returned
get(reserved, kind, specifics) ==
    LET want == [k \in {kind} |-> <<specifics>>]
        available == find_idx(reserved, want, TRUE, FALSE).idx[kind]
        kind_reserved == IF kind \in DOMAIN reserved THEN reserved[kind] ELSE <<>>
        used_count == UsedCount(kind_reserved)
        matching == find_idx(reserved, want, FALSE, FALSE).idx[kind]
        msg == IF matching = <<>> THEN "none_match"
               ELSE IF ~(used_count < Len(kind_reserved)) THEN "reserved_only"
               ELSE "all_in_use"
        pos == available[1] + 1
    IN  IF available = <<>>
        THEN [exn |-> "NoResourceExn", why |-> msg, reserved |-> reserved,
              pos |-> 0, ret |-> VNone]
        ELSE [exn |-> "", why |-> "",
              reserved |-> [reserved EXCEPT ![kind][pos].used = TRUE],
              pos |-> pos,
              ret |-> [reserved[kind][pos] EXCEPT !.used = TRUE]]

\* Variant of put without the checks of the used mark and of the hash
put_unchecked(reserved, item) ==
    LET g == get(reserved, Keys(reserved)[1], AnyItem)
    IN  IF Keys(reserved) = <<>>
        THEN [exn |-> "", why |-> "", reserved |-> reserved]
        ELSE IF g.exn # ""
        THEN [exn |-> g.exn, why |-> g.why, reserved |-> reserved]
        ELSE [exn |-> "AttributeError", why |-> "", reserved |-> g.reserved]

\* ReservedResources.put.  For the first key of the handle's dict line 496 calls
\* self.get(key), which is ReservedResources.get and not a dict lookup: it either
\* raises NoResourceExn or marks one more item used and returns a copy of it, a
\* dict, whose keys (strings) line 498 then calls .get() on: AttributeError.
put(reserved, item) ==
    LET g == get(reserved, Keys(reserved)[1], AnyItem)
    IN  IF ~item.used
        THEN [exn |-> "RuntimeError", why |-> "not_used", reserved |-> reserved]
        ELSE IF item.hash = NoHash
        THEN [exn |-> "RuntimeError", why |-> "no_hash", reserved |-> reserved]
        ELSE IF Keys(reserved) = <<>>
        THEN [exn |-> "", why |-> "", reserved |-> reserved]
        ELSE IF g.exn # ""
        THEN [exn |-> g.exn, why |-> g.why, reserved |-> reserved]
        ELSE [exn |-> "AttributeError", why |-> "", reserved |-> g.reserved]

\* Variant of put_all that clears the marks of the first kind only
put_all_first_kind(reserved) ==
    [k \in DOMAIN reserved |->
        [i \in 1..Len(reserved[k]) |->
            IF k = Keys(reserved)[1] THEN [reserved[k][i] EXCEPT !.used = FALSE]
            ELSE reserved[k][i]]]

\* ReservedResources.put_all
put_all(reserved) ==
    [k \in DOMAIN reserved |->
        [i \in 1..Len(reserved[k]) |-> [reserved[k][i] EXCEPT !.used = FALSE]]]

(***************************************************************************)
(* Initial values.                                                         *)
(***************************************************************************)
NotRun == [exn |-> "not_run", solution |-> <<>>]
\* the record of a call; pre is set by a successful reserve() to the state file it
\* read, and kept by a free() of the new handle that follows it at once; put_all()
\* sets it to the handle's dict as the call found it.  The arg of a free() is the
\* reserved_original the call found on the handle.
Call(op, h, exn, why, arg, ret) ==
    [op |-> op, h |-> h, exn |-> exn, why |-> why, arg |-> arg, ret |-> ret,
     pre |-> NoneResources]

NoCall == Call("none", 0, "", "", VNone, VNone)

SolveIdle == all_matches = <<>> /\ solved = NotRun

SeqIdle ==
    /\ file = EmptyResources
    /\ pools = [p \in Procs |-> NewPool]
    /\ handles = <<>>
    /\ last = NoCall

\* counter and num_ports are the next_<counter> operation called and its argument,
\* token the file it works on; value and ret are the value
\* it read and the value it returned; calls counts the next_<counter> calls made
\* SuiteRun.__init__ and load_tests: status UNKNOWN; no Test objects here.  tests
\* holds the status of every Test, names the argument of run_tests (positions of
\* the tests named; empty for None), next the position of the loop over the
\* tests, freed whether free_resources() has been called.
NoSuite == [status |-> "UNKNOWN", tests |-> <<>>, names |-> {}, next |-> 1,
            freed |-> FALSE]

IdleProc == [pc |-> "idle", want |-> EmptyResources, h |-> 0,
             reserved |-> EmptyResources, exn |-> "",
             counter |-> "", num_ports |-> 0,
             token |-> "", value |-> VNone, ret |-> VNone, calls |-> 0,
             suite |-> NoSuite]

ConcIdle ==
    /\ locks = {}
    /\ procs = [p \in Procs |-> IdleProc]

\* the content of a counter file: none, the decimal text of a number, or text that
\* is no number
Missing == [t |-> "missing"]
Text(n) == [t |-> "int", v |-> n]
Garbage == [t |-> "text"]

\* the tokens of the counter files
Tokens == {"lac", "rac", "cellid", "bvci"}

CounterIdle == tokens = [t \in Tokens |-> Missing]

(***************************************************************************)
(* SpecSolve: solve() applied to candidate lists as find() builds them,    *)
(* each an ascending list of indexes.                                      *)
(***************************************************************************)
IndexLists == {SortedSeq(S) : S \in SUBSET (0..(MaxIdx - 1))}
CandidateLists == UNION {[1..n -> IndexLists] : n \in 0..MaxSlots}

InitSolve ==
    /\ all_matches \in CandidateLists
    /\ solved = NotRun
    /\ SeqIdle
    /\ ConcIdle
    /\ CounterIdle

Solve ==
    /\ solved = NotRun
    /\ solved' = solve(all_matches)
    /\ UNCHANGED <<all_matches, seqVars, concVars, counterVars>>

NextSolve == Solve

SpecSolve == InitSolve /\ [][NextSolve]_vars

(***************************************************************************)
(* Spec: the processes call reserve() and free the handles, one call at a  *)
(* time.  The state file starts absent, which                              *)
(* config.read(..., if_missing_return={}) reads as the empty record.       *)
(***************************************************************************)
Init == SolveIdle /\ SeqIdle /\ ConcIdle /\ CounterIdle

\* pool.reserve(origin, want, modifiers) called by process p
Reserve(p, want) ==
    \E r \in {reserve(file, pools[p], origin_id(p), want)} :
    \E modifiers \in Modifiers(want) :
        /\ r.exn # "" \/ Len(handles) < MaxHandles
        /\ file' = r.record
        /\ pools' = [pools EXCEPT ![p] = r.pool]
        /\ handles' = IF r.exn = ""
                      THEN Append(handles, NewHandle(p, r.to_be_reserved, modifiers))
                      ELSE handles
        /\ last' = [Call("reserve", IF r.exn = "" THEN Len(handles) + 1 ELSE 0,
                         r.exn, r.why, want, VNone)
                       EXCEPT !.pre = IF r.exn = "" THEN SomeResources(file) ELSE @]
        /\ UNCHANGED <<solveVars, concVars, counterVars>>

\* Variant of handle.free() that keeps its reference to the original set
HandleFree_keeps_reference(h) ==
    \E hd \in {handles[h]} :
    \E r \in {free(file, pools[hd.pool], hd.reserved_original.res, FALSE)} :
        /\ IF Truthy(hd.reserved_original)
           THEN /\ file' = r.record
                /\ pools' = [pools EXCEPT ![hd.pool] = r.pool]
                /\ last' = Call("free", h, r.exn, "", hd.reserved_original, VNone)
           ELSE /\ last' = Call("free", h, "", "", hd.reserved_original, VNone)
                /\ UNCHANGED <<file, pools>>
        /\ UNCHANGED <<handles, solveVars, concVars, counterVars>>

\* Variant of handle.free() that releases only the items not marked used
HandleFree_unused_only(h) ==
    \E hd \in {handles[h]} :
    \E unused \in {[k \in DOMAIN hd.reserved_original.res |->
                      SelectSeq(hd.reserved[k], LAMBDA it : ~it.used)]} :
    \E r \in {free(file, pools[hd.pool], unused, FALSE)} :
        /\ IF Truthy(hd.reserved_original)
           THEN /\ file' = r.record
                /\ pools' = [pools EXCEPT ![hd.pool] = r.pool]
                /\ handles' = IF r.exn = ""
                              THEN [handles EXCEPT ![h].reserved_original = NoneResources]
                              ELSE handles
                /\ last' = Call("free", h, r.exn, "", hd.reserved_original, VNone)
           ELSE /\ handles' = [handles EXCEPT ![h].reserved_original = NoneResources]
                /\ last' = Call("free", h, "", "", hd.reserved_original, VNone)
                /\ UNCHANGED <<file, pools>>
        /\ UNCHANGED <<solveVars, concVars, counterVars>>

\* handle.free()
HandleFree(h) ==
    \E hd \in {handles[h]} :
    \E r \in {free(file, pools[hd.pool], hd.reserved_original.res, FALSE)} :
        /\ IF Truthy(hd.reserved_original)
           THEN /\ file' = r.record
                /\ pools' = [pools EXCEPT ![hd.pool] = r.pool]
                /\ handles' = IF r.exn = ""
                              THEN [handles EXCEPT ![h].reserved_original = NoneResources]
                              ELSE handles
                /\ last' = [Call("free", h, r.exn, "", hd.reserved_original, VNone)
                               EXCEPT !.pre = IF last.op = "reserve" /\ last.h = h
                                              THEN last.pre ELSE @]
           ELSE /\ handles' = [handles EXCEPT ![h].reserved_original = NoneResources]
                /\ last' = Call("free", h, "", "", hd.reserved_original, VNone)
                /\ UNCHANGED <<file, pools>>
        /\ UNCHANGED <<solveVars, concVars, counterVars>>

\* handle.get(kind, specifics)
Get(h, kind, specifics) ==
    \E g \in {get(handles[h].reserved, kind, specifics)} :
        /\ handles' = [handles EXCEPT ![h].reserved = g.reserved]
        /\ last' = Call("get", h, g.exn, g.why,
                         [kind |-> kind, specifics |-> specifics, pos |-> g.pos], g.ret)
        /\ UNCHANGED <<file, pools, solveVars, concVars, counterVars>>

\* the items a caller passes to put(): a copy that get() returns of an item of the
\* handle, or such a copy without its used mark or without its hash
HandleItems(h) ==
    UNION {{handles[h].reserved[k][i] : i \in 1..Len(handles[h].reserved[k])} :
              k \in DOMAIN handles[h].reserved}

PutItems(h) ==
    {[it EXCEPT !.used = TRUE] : it \in HandleItems(h)}
    \cup {[it EXCEPT !.used = FALSE] : it \in HandleItems(h)}
    \cup {[it EXCEPT !.used = TRUE, !.hash = NoHash] : it \in HandleItems(h)}

\* handle.put(item)
Put(h, item) ==
    \E r \in {put(handles[h].reserved, item)} :
        /\ handles' = [handles EXCEPT ![h].reserved = r.reserved]
        /\ last' = Call("put", h, r.exn, r.why, item, VNone)
        /\ UNCHANGED <<file, pools, solveVars, concVars, counterVars>>

\* handle.put_all()
PutAll(h) ==
    /\ handles' = [handles EXCEPT ![h].reserved =
                      IF DOMAIN @ = {} THEN @ ELSE put_all(@)]
    /\ last' = [Call("put_all", h, "", "", VNone, VNone)
                   EXCEPT !.pre = SomeResources(handles[h].reserved)]
    /\ UNCHANGED <<file, pools, solveVars, concVars, counterVars>>

Next ==
    \/ \E p \in Procs, want \in Wants : Reserve(p, want)
    \/ \E h \in 1..Len(handles) : HandleFree(h)

Spec == Init /\ [][Next]_vars

(***************************************************************************)
(* SpecUse: one process reserves once and then draws from the handle.      *)
(***************************************************************************)
NextUse ==
    \/ /\ handles = <<>>
       /\ \E want \in Wants : Reserve("p1", want)
    \/ \E h \in 1..Len(handles), kind \in Kinds, specifics \in Specifics :
          Get(h, kind, specifics)
    \/ \E h \in 1..Len(handles) : \E item \in PutItems(h) : Put(h, item)
    \/ \E h \in 1..Len(handles) : PutAll(h)
    \/ \E h \in 1..Len(handles) : HandleFree(h)

SpecUse == Init /\ [][NextUse]_vars

(***************************************************************************)
(* SpecConc: the processes run reserve() and handle.free() concurrently.   *)
(* A call takes the lock, reads the state file, computes and writes it,    *)
(* and releases the lock on return; the steps of different processes       *)
(* interleave.  state_dir.lock(origin_id) is a lock named after the        *)
(* caller's identity: it excludes only a caller with the same origin id.   *)
(***************************************************************************)
ConcWants == {[bts |-> <<AnyItem>>], [modem |-> <<AnyItem>>]}

\* util.Dir.lock(origin_id): the name of the lock the caller takes
lock(origin) == origin

\* reserve() is called: schema validation done, the lock not yet taken
StartReserve(p, want) ==
    /\ procs[p].pc = "idle"
    /\ Len(handles) < MaxHandles
    /\ procs' = [procs EXCEPT ![p] = [IdleProc EXCEPT !.pc = "reserve_lock", !.want = want,
                                                      !.calls = procs[p].calls]]
    /\ UNCHANGED <<file, pools, handles, last, locks, solveVars, counterVars>>

\* handle.free() is called on a handle of the process that still has its items
StartFree(p, h) ==
    /\ procs[p].pc = "idle"
    /\ handles[h].pool = p
    /\ Truthy(handles[h].reserved_original)
    /\ procs' = [procs EXCEPT ![p] = [IdleProc EXCEPT !.pc = "free_lock", !.h = h,
                                                      !.want = handles[h].reserved_original.res,
                                                      !.calls = procs[p].calls]]
    /\ UNCHANGED <<file, pools, handles, last, locks, solveVars, counterVars>>

\* with self.state_dir.lock(origin_id): blocks while the lock is held
AcquireLock(p) ==
    /\ procs[p].pc \in {"reserve_lock", "free_lock", "counter_lock"}
    /\ lock(origin_id(p)) \notin locks
    /\ locks' = locks \cup {lock(origin_id(p))}
    /\ procs' = [procs EXCEPT ![p].pc =
                    IF @ = "reserve_lock" THEN "reserve_read"
                    ELSE IF @ = "free_lock" THEN "free_read" ELSE "counter_read"]
    /\ UNCHANGED <<file, pools, handles, last, solveVars, counterVars>>

\* reserved = Resources(config.read(rrfile_path, if_missing_return={}))
ReadState(p) ==
    /\ procs[p].pc \in {"reserve_read", "free_read"}
    /\ procs' = [procs EXCEPT ![p].reserved = file,
                              ![p].pc = IF @ = "reserve_read" THEN "reserve_write"
                                                              ELSE "free_write"]
    /\ UNCHANGED <<file, pools, handles, last, locks, solveVars, counterVars>>

\* reserve(), from find() to the construction of the handle
ReserveWrite(p) ==
    /\ procs[p].pc = "reserve_write"
    /\ \E r \in {reserve(procs[p].reserved, pools[p], origin_id(p), procs[p].want)} :
          /\ file' = IF r.written THEN r.record ELSE file
          /\ pools' = [pools EXCEPT ![p] = r.pool]
          /\ handles' = IF r.exn = ""
                        THEN Append(handles, NewHandle(p, r.to_be_reserved, NoModifiers))
                        ELSE handles
          /\ procs' = [procs EXCEPT ![p].pc = "unlock", ![p].exn = r.exn]
    /\ UNCHANGED <<last, locks, solveVars, counterVars>>

\* ResourcesPool.free(), from drop() to forget_freed()
FreeWrite(p) ==
    /\ procs[p].pc = "free_write"
    /\ \E r \in {free(procs[p].reserved, pools[p], procs[p].want, FALSE)} :
          /\ file' = IF r.written THEN r.record ELSE file
          /\ pools' = [pools EXCEPT ![p] = r.pool]
          /\ procs' = [procs EXCEPT ![p].pc = "unlock", ![p].exn = r.exn]
    /\ UNCHANGED <<handles, last, locks, solveVars, counterVars>>

\* Variant of the end of the with-block that keeps the lock when the block raised
ReleaseLock_on_return_only(p) ==
    /\ procs[p].pc = "unlock"
    /\ locks' = IF procs[p].exn = "" THEN locks \ {lock(origin_id(p))} ELSE locks
    /\ handles' = IF procs[p].h # 0 /\ procs[p].exn = ""
                  THEN [handles EXCEPT ![procs[p].h].reserved_original = NoneResources]
                  ELSE handles
    /\ procs' = [procs EXCEPT ![p].pc = "idle", ![p].h = 0]
    /\ UNCHANGED <<file, pools, last, solveVars, counterVars>>

\* the with-block is left, by return or by exception; handle.free() then drops
\* its reference unless pool.free() raised
ReleaseLock(p) ==
    /\ procs[p].pc = "unlock"
    /\ locks' = locks \ {lock(origin_id(p))}
    /\ handles' = IF procs[p].h # 0 /\ procs[p].exn = ""
                  THEN [handles EXCEPT ![procs[p].h].reserved_original = NoneResources]
                  ELSE handles
    /\ procs' = [procs EXCEPT ![p].pc = "idle", ![p].h = 0]
    /\ UNCHANGED <<file, pools, last, solveVars, counterVars>>

NextConc ==
    \/ \E p \in Procs, want \in ConcWants : StartReserve(p, want)
    \/ \E p \in Procs, h \in 1..Len(handles) : StartFree(p, h)
    \/ \E p \in Procs : AcquireLock(p)
    \/ \E p \in Procs : ReadState(p)
    \/ \E p \in Procs : ReserveWrite(p)
    \/ \E p \in Procs : FreeWrite(p)
    \/ \E p \in Procs : ReleaseLock(p)

SpecConc == Init /\ [][NextConc]_vars

(***************************************************************************)
(* Properties of the solver, under SpecSolve.                              *)
(***************************************************************************)
Injective(f) == \A i, j \in DOMAIN f : i # j => f[i] # f[j]

\* an assignment of pairwise distinct indexes, one from each candidate list
HasAssignment(am) ==
    \E f \in [1..Len(am) -> 0..(MaxIdx - 1)] :
        /\ \A i \in 1..Len(am) : SeqContains(am[i], f[i])
        /\ Injective(f)

\* C5: whenever solve() returns for non-empty candidate lists, the result has one
\* entry per candidate list, each entry is a member of its list, and the entries
\* are pairwise distinct.
C5_SolveReturnsDistinctRepresentatives ==
    solved.exn = "" =>
        /\ all_matches # <<>>
        /\ Len(solved.solution) = Len(all_matches)
        /\ \A i \in 1..Len(all_matches) : SeqContains(all_matches[i], solved.solution[i])
        /\ Injective(solved.solution)

\* C5 witness: solve() has returned for two slots with the same two candidates
C5_Witness ==
    /\ solved.exn = ""
    /\ Len(all_matches) = 2
    /\ all_matches[1] = <<0, 1>>
    /\ all_matches[2] = <<0, 1>>

\* C6: for non-empty candidate lists solve() raises NotSolvable exactly when no
\* assignment of pairwise distinct indexes exists; solve([[0],[0]]) fails and
\* solve([[0,1],[0]]) succeeds although the first slot could take the second's
\* only candidate.
C6_NotSolvableIffNoAssignment ==
    (solved # NotRun /\ all_matches # <<>>) =>
        /\ solved.exn \in {"", "NotSolvable"}
        /\ (solved.exn = "NotSolvable") <=> ~HasAssignment(all_matches)
        /\ all_matches = <<<<0>>, <<0>>>> => solved.exn = "NotSolvable"
        /\ all_matches = <<<<0, 1>>, <<0>>>> => solved.exn = ""

\* C6 witness: the looser slot listed first has given way to the tighter one
C6_Witness ==
    /\ all_matches = <<<<0, 1>>, <<0>>>>
    /\ solved.exn = ""
    /\ solved.solution = <<1, 0>>

\* the positions, in their candidate lists, of the entries of an assignment
PositionsOf(am, sol) ==
    [i \in 1..Len(am) |-> CHOOSE n \in 1..Len(am[i]) : am[i][n] = sol[i]]

\* the choices of one position per candidate list that pick distinct indexes
ValidPositions(am) ==
    {f \in [1..Len(am) -> 1..MaxIdx] :
        /\ \A i \in 1..Len(am) : f[i] <= Len(am[i])
        /\ Injective([i \in 1..Len(am) |-> am[i][f[i]]])}

LexLeq(a, b) ==
    \/ a = b
    \/ \E i \in 1..Len(a) : a[i] < b[i] /\ \A j \in 1..(i - 1) : a[j] = b[j]

\* C7: the solution returned is the first one of a depth-first search over the
\* slots in input order and the candidates in list order, that is the least valid
\* assignment in the lexicographic order of candidate positions;
\* solve([[0,1,2],[0],[0,2]]) = [1,0,2].
C7_SolveReturnsLexLeast ==
    /\ solved.exn = "" =>
          \A f \in ValidPositions(all_matches) :
              LexLeq(PositionsOf(all_matches, solved.solution), f)
    /\ (solved # NotRun /\ all_matches = <<<<0, 1, 2>>, <<0>>, <<0, 2>>>>) =>
          solved.solution = <<1, 0, 2>>

\* C7 witness: the example of the docstring has been solved
C7_Witness ==
    /\ all_matches = <<<<0, 1, 2>>, <<0>>, <<0, 2>>>>
    /\ solved.solution = <<1, 0, 2>>

(***************************************************************************)
(* Properties of reserve() and free(), under Spec.                         *)
(***************************************************************************)
ListOf(r, k) == IF k \in DOMAIN r THEN r[k] ELSE <<>>

Hashes(r, k) == {ListOf(r, k)[i].hash : i \in 1..Len(ListOf(r, k))}

HashCount(r, k, hash) ==
    Cardinality({i \in 1..Len(ListOf(r, k)) : ListOf(r, k)[i].hash = hash})

\* two records hold the same multiset of item hashes for every kind
SameHashes(r1, r2) ==
    \A k \in Kinds : \A hash \in Hashes(r1, k) \cup Hashes(r2, k) :
        HashCount(r1, k, hash) = HashCount(r2, k, hash)

\* the catalog items of a kind that the record does not hold
Available(record, k) ==
    SelectSeq(all_resources[k], LAMBDA it : it.hash \notin Hashes(record, k))

\* attribute-subset containment for the flat constraints of Wants
Contains(attrs, constraint) ==
    \A a \in DOMAIN constraint.v : a \in DOMAIN attrs /\ attrs[a] = constraint.v[a]

\* every slot of want_list can be given an item of its own that contains it
CanSatisfy(items, want_list) ==
    \E f \in [1..Len(want_list) -> 1..Len(items)] :
        /\ Injective(f)
        /\ \A n \in 1..Len(want_list) : Contains(items[f[n]].attrs, want_list[n])

\* some kind of want cannot be satisfied from the catalog minus the record
Unsatisfiable(record, want) ==
    \E k \in DOMAIN want : ~CanSatisfy(Available(record, k), want[k])

\* C3: reserve() followed at once by free() of the returned handle leaves the
\* record with the multiset of item hashes per kind it had before the reserve, so
\* the available items (catalog minus record) are the same as before.
C3_ReserveThenFreeRestoresRecord ==
    (last.op = "free" /\ last.pre.set) =>
        /\ last.exn = ""
        /\ SameHashes(file, last.pre.res)
        /\ without(all_resources, file) = without(all_resources, last.pre.res)

\* C3 witness: a handle holding items was freed right after its reserve(), while
\* another reservation stayed in the record
C3_Witness ==
    /\ last.op = "free"
    /\ last.pre.set
    /\ DOMAIN last.pre.res # {}
    /\ \E k \in DOMAIN handles[last.h].reserved : Len(handles[last.h].reserved[k]) >= 1
    /\ ~handles[last.h].reserved_original.set

\* C4: when some slot of some kind of the request cannot be satisfied, reserve()
\* raises NoResourceExn, and a reserve() that raises leaves the state file, the
\* auto-release registry, the exit handler registration and the handles unchanged.
C4_FailedReserveChangesNothing ==
    [][last'.op = "reserve" =>
          /\ Unsatisfiable(file, last'.arg) => last'.exn = "NoResourceExn"
          /\ last'.exn # "" => (file' = file /\ pools' = pools /\ handles' = handles)]_vars

\* C4 witness: a request for two kinds has failed on its modems while the bts it
\* asked for was available
C4_Witness ==
    /\ last.op = "reserve"
    /\ last.exn = "NoResourceExn"
    /\ DOMAIN last.arg = {"bts", "modem"}
    /\ CanSatisfy(Available(file, "bts"), last.arg["bts"])
    /\ ~CanSatisfy(Available(file, "modem"), last.arg["modem"])
    /\ DOMAIN file # {}

(***************************************************************************)
(* Properties of the handle, under SpecUse.                                *)
(***************************************************************************)
\* C8: a successful get() returns an instance that was not marked used and marks
\* exactly that instance; so two get() calls without a release in between return
\* distinct instances and no more instances are in use than are reserved.
C8_GetPicksUnusedInstance ==
    [][(last'.op = "get" /\ last'.exn = "") =>
          LET h == last'.h
              k == last'.arg.kind
              n == last'.arg.pos
          IN  /\ k \in DOMAIN handles[h].reserved
              /\ n \in 1..Len(handles[h].reserved[k])
              /\ ~handles[h].reserved[k][n].used
              /\ last'.ret = [handles[h].reserved[k][n] EXCEPT !.used = TRUE]
              /\ handles' = [handles EXCEPT ![h].reserved[k][n].used = TRUE]]_vars

\* C8 witness: with the first modem in use a second get() has returned the other
C8_Witness ==
    /\ last.op = "get"
    /\ last.exn = ""
    /\ last.arg.kind = "modem"
    /\ last.arg.pos = 2
    /\ handles[last.h].reserved["modem"][1].used
    /\ handles[last.h].reserved["modem"][2].used

\* C9: put(item) right after item = get(kind, {}) returns without error and
\* clears the used mark of the instance with item's hash, so that a later get()
\* can return it again.
C9_PutAfterGetReleases ==
    [][(/\ last.op = "get"
        /\ last.exn = ""
        /\ last.arg.specifics = AnyItem
        /\ last'.op = "put"
        /\ last'.h = last.h
        /\ last'.arg = last.ret) =>
          /\ last'.exn = ""
          /\ \A k \in DOMAIN handles'[last.h].reserved :
                \A i \in 1..Len(handles'[last.h].reserved[k]) :
                    handles'[last.h].reserved[k][i].hash = last.ret.hash =>
                        ~handles'[last.h].reserved[k][i].used]_vars

\* every reserved instance of the kind is in use
AllDrawn(reserved, k) ==
    /\ k \in DOMAIN reserved
    /\ Len(reserved[k]) >= 1
    /\ \A i \in 1..Len(reserved[k]) : reserved[k][i].used

\* C10 as stated: once every reserved instance of a kind is drawn, get(kind) with
\* empty constraints raises NoResourceExn whose message says that the matching
\* instances are all already in use, not that nothing matches, and leaves the used
\* marks unchanged.
C10_ExhaustedGetCitesInUse ==
    [][(/\ last'.op = "get"
        /\ last'.arg.specifics = AnyItem
        /\ AllDrawn(handles[last'.h].reserved, last'.arg.kind)) =>
          /\ last'.exn = "NoResourceExn"
          /\ last'.why = "all_in_use"
          /\ handles' = handles]_vars

\* C10 amended: in that case get() raises NoResourceExn whose message is the one
\* of exhaustion, 'suite.conf reserved only n x kind', neither the one of no match
\* nor the one saying 'already in use'; the used marks are unchanged.
C10_ExhaustedGetCitesReservedOnly ==
    [][(/\ last'.op = "get"
        /\ last'.arg.specifics = AnyItem
        /\ AllDrawn(handles[last'.h].reserved, last'.arg.kind)) =>
          /\ last'.exn = "NoResourceExn"
          /\ last'.why = "reserved_only"
          /\ handles' = handles]_vars

\* C10 witness: two modems reserved, both drawn, and a third get('modem') refused
C10_Witness ==
    /\ last.op = "get"
    /\ last.exn = "NoResourceExn"
    /\ last.why = "reserved_only"
    /\ last.arg.kind = "modem"
    /\ last.arg.specifics = AnyItem
    /\ Len(handles[last.h].reserved["modem"]) = 2
    /\ AllDrawn(handles[last.h].reserved, "modem")

(***************************************************************************)
(* Properties of concurrent reserve() and free(), under SpecConc.          *)
(***************************************************************************)
\* a reservation that was granted and whose free() has not been called
Live(h) ==
    /\ handles[h].reserved_original.set
    /\ \A p \in Procs : procs[p].h # h

\* the number of items with this hash that the live reservations hold
GrantedCount(k, hash) ==
    Cardinality({<<h, i>> \in (1..Len(handles)) \X (1..Cardinality(Hashes(all_resources, k))) :
                    /\ Live(h)
                    /\ i <= Len(ListOf(handles[h].reserved_original.res, k))
                    /\ ListOf(handles[h].reserved_original.res, k)[i].hash = hash})

\* C1: no catalog item (by hash) is held by two live reservations at once.
C1_NoItemGrantedTwice ==
    \A h1, h2 \in 1..Len(handles) :
        (h1 < h2 /\ Live(h1) /\ Live(h2)) =>
            \A k \in Kinds :
                Hashes(handles[h1].reserved_original.res, k)
                    \cap Hashes(handles[h2].reserved_original.res, k) = {}

\* C2: whenever no call is in progress the state file is the result of the calls
\* in some serial order: it holds exactly the items of the reservations granted
\* and not freed, none missing and none of a freed one reappearing.
C2_StateFileIsSerial ==
    (\A p \in Procs : procs[p].pc = "idle") =>
        \A k \in Kinds : \A hash \in Hashes(all_resources, k) :
            HashCount(file, k, hash) = GrantedCount(k, hash)

(***************************************************************************)
(* Properties of put(), put_all() and handle.free().                       *)
(***************************************************************************)
\* C11: put(item) raises an error when item carries no true used mark or no hash,
\* and in both cases leaves every used mark of the handle unchanged.
C11_PutRejectsUnusedOrHashless ==
    [][(last'.op = "put" /\ (~last'.arg.used \/ last'.arg.hash = NoHash)) =>
          /\ last'.exn = "RuntimeError"
          /\ last'.why = (IF ~last'.arg.used THEN "not_used" ELSE "no_hash")
          /\ handles' = handles]_vars

\* C11 witness: with a modem in use, put() of a copy without hash was refused
C11_Witness ==
    /\ last.op = "put"
    /\ last.exn = "RuntimeError"
    /\ last.why = "no_hash"
    /\ last.arg.used
    /\ \E i \in 1..Len(ListOf(handles[last.h].reserved, "modem")) :
          handles[last.h].reserved["modem"][i].used

NothingUsed(reserved) ==
    \A k \in DOMAIN reserved : \A i \in 1..Len(reserved[k]) : ~reserved[k][i].used

\* the handle's dict after n successful get(kind) calls with empty constraints
RECURSIVE Drawn(_, _, _)
Drawn(reserved, k, n) ==
    IF n = 0 THEN reserved ELSE get(Drawn(reserved, k, n - 1), k, AnyItem).reserved

\* every reserved instance of every kind can be drawn, one get() after the other
AllDrawable(reserved) ==
    \A k \in DOMAIN reserved : \A n \in 1..Len(reserved[k]) :
        get(Drawn(reserved, k, n - 1), k, AnyItem).exn = ""

\* C12: after put_all() no item of the handle is marked used, whatever get() calls
\* came before, nothing but used marks has changed, and every reserved instance
\* can be drawn again; with nothing in use or nothing reserved it changes nothing.
C12_PutAllClearsEveryMark ==
    [][last'.op = "put_all" =>
          LET before == handles[last'.h].reserved
              after == handles'[last'.h].reserved
          IN  /\ last'.exn = ""
              /\ NothingUsed(after)
              /\ DOMAIN after = DOMAIN before
              /\ \A k \in DOMAIN before :
                    /\ Len(after[k]) = Len(before[k])
                    /\ \A i \in 1..Len(before[k]) :
                          after[k][i] = [before[k][i] EXCEPT !.used = FALSE]
              /\ AllDrawable(after)
              /\ handles' = [handles EXCEPT ![last'.h].reserved = after]
              /\ NothingUsed(before) => handles' = handles]_vars

\* C12 witness: put_all() has found a bts and a modem in use and cleared both
C12_Witness ==
    /\ last.op = "put_all"
    /\ last.pre.set
    /\ DOMAIN last.pre.res = {"bts", "modem"}
    /\ AllDrawn(last.pre.res, "bts")
    /\ AllDrawn(last.pre.res, "modem")
    /\ NothingUsed(handles[last.h].reserved)

\* the number of items with this hash in the list of kind k of an optional dict
OriginalCount(o, k, hash) == IF o.set THEN HashCount(o.res, k, hash) ELSE 0

\* the step has removed from the state file exactly the items of `original`
Released(original) ==
    \A k \in Kinds : \A hash \in Hashes(all_resources, k) :
        HashCount(file', k, hash) = HashCount(file, k, hash) - OriginalCount(original, k, hash)

C14_HandleUseIsInMemory ==
    [][/\ last'.op \in {"get", "put", "put_all"} =>
             /\ file' = file
             /\ pools' = pools
             /\ Len(handles') = Len(handles)
             /\ \A h \in 1..Len(handles) :
                   handles'[h].reserved_original = handles[h].reserved_original
       /\ (last'.op = "free" /\ handles[last'.h].reserved_original.set) =>
             /\ last'.exn = ""
             /\ Released(handles[last'.h].reserved_original)]_vars

\* C14 witness: a handle with a bts and a modem, the modem in use and the bts not,
\* was freed and the state file is empty
C14_Witness ==
    /\ last.op = "free"
    /\ last.exn = ""
    /\ last.arg.set
    /\ DOMAIN last.arg.res = {"bts", "modem"}
    /\ AllDrawn(handles[last.h].reserved, "modem")
    /\ ~AllDrawn(handles[last.h].reserved, "bts")
    /\ file = EmptyResources

(***************************************************************************)
(* SpecPool: one process calls reserve() and calls ResourcesPool.free       *)
(* directly with a list of catalog items.                                  *)
(***************************************************************************)
\* the `to_be_freed` arguments of a direct ResourcesPool.free: items of the
\* catalog, one of them listed alone, with another kind, or twice
FreeLists ==
    { [bts |-> <<all_resources["bts"][1]>>],
      [modem |-> <<all_resources["modem"][1]>>],
      [bts |-> <<all_resources["bts"][1]>>, modem |-> <<all_resources["modem"][2]>>],
      [modem |-> <<all_resources["modem"][1], all_resources["modem"][1]>>] }

\* pool.free(origin, to_be_freed) on the pool of process p
PoolFree(p, to_be_freed) ==
    \E r \in {free(file, pools[p], to_be_freed, FALSE)} :
        /\ file' = r.record
        /\ pools' = [pools EXCEPT ![p] = r.pool]
        /\ last' = Call("pool_free", 0, r.exn, p, to_be_freed, VNone)
        /\ UNCHANGED <<handles, solveVars, concVars, counterVars>>

NextPool ==
    \/ \E want \in Wants : Reserve("p1", want)
    \/ \E to_be_freed \in FreeLists : PoolFree("p1", to_be_freed)

SpecPool == Init /\ [][NextPool]_vars

\* some listed item has no item of its hash left for it in the record
SomeMissing(record, items) ==
    \E k \in DOMAIN items : \E hash \in Hashes(items, k) :
        HashCount(items, k, hash) > HashCount(record, k, hash)

\* C15: free(origin, items) raises an error when the hash of a listed item is not
\* in the Reservation Record for its kind; the state file and the registry are
\* then unchanged, even if other listed items were found.
C15_FreeOfUnknownItemChangesNothing ==
    [][(last'.op = "pool_free" /\ SomeMissing(file, last'.arg)) =>
          /\ last'.exn = "RuntimeError"
          /\ file' = file
          /\ pools' = pools]_vars

\* C15 witness: free() of a bts and a modem was refused for the modem while the
\* bts is in the state file and in the registry of the pool
C15_Witness ==
    /\ last.op = "pool_free"
    /\ last.exn = "RuntimeError"
    /\ DOMAIN last.arg = {"bts", "modem"}
    /\ Hashes(last.arg, "bts") \subseteq Hashes(file, "bts")
    /\ Hashes(last.arg, "modem") \cap Hashes(file, "modem") = {}
    /\ pools[last.why].remember.set
    /\ Hashes(last.arg, "bts") \subseteq Hashes(pools[last.why].remember.res, "bts")

(***************************************************************************)
(* The persistent counters.  A counter file holds the decimal text of the  *)
(* value last handed out; int() and str() convert between the text and the *)
(* number.                                                                 *)
(***************************************************************************)
MaxCalls == 2

\* schema.uint16: accepts the text of a number from 0 to 65535
uint16(content) == content.t = "int" /\ content.v \in 0..(2^16 - 1)

\* schema.uint8: accepts the text of a number from 0 to 255
uint8(content) == content.t = "int" /\ content.v \in 0..(2^8 - 1)

\* the next_<counter> operations: next_lac, next_rac, next_cellid, next_bvci and
\* next_zmq_port_range
Counters == {"lac", "rac", "cellid", "bvci", "zmq"}

\* the token arguments of next_persistent_value: next_zmq_port_range passes 'bvci'
token_of(counter) == IF counter = "zmq" THEN "bvci" ELSE counter

\* the first_val arguments of next_persistent_value
first_val(counter) ==
    IF counter = "bvci" THEN 2 ELSE IF counter = "zmq" THEN 2000 ELSE 1

\* the validate_func arguments of next_persistent_value
validate_func(counter, content) ==
    IF counter = "rac" THEN uint8(content) ELSE uint16(content)

\* Variant of the increment of next_lac without `or 1`
uint16_inc(x) == (x + 1) % (2^16)

\* the inc_func of next_lac: lambda x: str(((int(x)+1) % pow(2,16)) or 1)
lac_inc(x) == IF (x + 1) % (2^16) = 0 THEN 1 ELSE (x + 1) % (2^16)

\* the inc_func of next_rac: lambda x: str((int(x)+1) % pow(2,8) or 1)
rac_inc(x) == IF (x + 1) % (2^8) = 0 THEN 1 ELSE (x + 1) % (2^8)

\* the inc_func of next_cellid: lambda x: str((int(x)+1) % pow(2,16))
cellid_inc(x) == (x + 1) % (2^16)

\* Variant of the increment of next_bvci that wraps to 1
bvci_inc_to_one(x) == IF x < 2^16 - 1 THEN x + 1 ELSE 1

\* the inc_func of next_bvci: lambda x: str(int(x)+1) if int(x) < pow(2,16) - 1 else '2'
bvci_inc(x) == IF x < 2^16 - 1 THEN x + 1 ELSE 2

\* next_zmq_port_range, line 190: num_ports rounded up to even
even_ports(num_ports) == IF num_ports % 2 = 0 THEN num_ports ELSE num_ports + 1

\* the inc_func of next_zmq_port_range:
\* lambda x: str(int(x)+num_ports) if int(x) < 2200 - num_ports else '2000'
zmq_inc(x, num_ports) ==
    IF x < 2200 - even_ports(num_ports) THEN x + even_ports(num_ports) ELSE 2000

\* the inc_func arguments of next_persistent_value
inc_func(counter, x, num_ports) ==
    IF counter = "lac" THEN lac_inc(x)
    ELSE IF counter = "rac" THEN rac_inc(x)
    ELSE IF counter = "cellid" THEN cellid_inc(x)
    ELSE IF counter = "bvci" THEN bvci_inc(x)
    ELSE zmq_inc(x, num_ports)

\* next_<counter>(origin) is called by process p: the lock is not yet taken
StartCounter(p, counter, num_ports) ==
    /\ procs[p].pc = "idle"
    /\ procs[p].calls < MaxCalls
    /\ procs' = [procs EXCEPT ![p] = [IdleProc EXCEPT !.pc = "counter_lock",
                                                      !.counter = counter,
                                                      !.num_ports = num_ports,
                                                      !.token = token_of(counter),
                                                      !.calls = procs[p].calls + 1]]
    /\ UNCHANGED <<seqVars, locks, solveVars, counterVars>>

\* next_persistent_value, lines 157-163: last_value is first_val when the file is
\* missing, else the content of the file, which validate_func must accept
ReadToken(p) ==
    /\ procs[p].pc = "counter_read"
    /\ \E content \in {tokens[procs[p].token]} :
          procs' = IF content = Missing
                   THEN [procs EXCEPT ![p].pc = "counter_write",
                                      ![p].value = Text(first_val(procs[p].counter))]
                   ELSE IF validate_func(procs[p].counter, content)
                   THEN [procs EXCEPT ![p].pc = "counter_write", ![p].value = content]
                   ELSE [procs EXCEPT ![p].pc = "unlock", ![p].exn = "ValueError"]
    /\ UNCHANGED <<seqVars, locks, solveVars, counterVars>>

\* Variant of the end of next_persistent_value that returns last_value
WriteToken_returns_last(p) ==
    /\ procs[p].pc = "counter_write"
    /\ \E next_value \in {Text(inc_func(procs[p].counter, procs[p].value.v,
                                         procs[p].num_ports))} :
          /\ tokens' = [tokens EXCEPT ![procs[p].token] = next_value]
          /\ procs' = [procs EXCEPT ![p].pc = "unlock", ![p].ret = procs[p].value]
    /\ UNCHANGED <<seqVars, locks, solveVars>>

\* next_persistent_value, lines 165-168: next_value is written and returned
WriteToken(p) ==
    /\ procs[p].pc = "counter_write"
    /\ \E next_value \in {Text(inc_func(procs[p].counter, procs[p].value.v,
                                         procs[p].num_ports))} :
          /\ tokens' = [tokens EXCEPT ![procs[p].token] = next_value]
          /\ procs' = [procs EXCEPT ![p].pc = "unlock", ![p].ret = next_value]
    /\ UNCHANGED <<seqVars, locks, solveVars>>

(***************************************************************************)
(* SpecCounter: the processes call next_lac() on a counter file that       *)
(* starts missing, valid or corrupt.                                       *)
(***************************************************************************)
LacFiles == {Missing, Text(0), Text(1), Text(2^16 - 3), Text(2^16 - 2), Text(2^16 - 1),
             Text(2^16), Garbage}

InitCounter ==
    /\ SolveIdle
    /\ SeqIdle
    /\ ConcIdle
    /\ tokens \in {[t \in Tokens |-> IF t = "lac" THEN c ELSE Missing] : c \in LacFiles}

NextCounter ==
    \/ \E p \in Procs : StartCounter(p, "lac", 0)
    \/ \E p \in Procs : AcquireLock(p)
    \/ \E p \in Procs : ReadToken(p)
    \/ \E p \in Procs : WriteToken(p)
    \/ \E p \in Procs : ReleaseLock(p)

SpecCounter == InitCounter /\ [][NextCounter]_vars

(***************************************************************************)
(* SpecLock: one process runs reserve() and free() and another next_lac(), *)
(* step by step, with requests that fail: a bts that is taken, a free() of *)
(* items that are not in the record, a corrupt counter file.               *)
(***************************************************************************)
LockWants == {[bts |-> <<AnyItem>>]}
LockFreeLists == {[bts |-> <<all_resources["bts"][1]>>]}
LockFiles == {Text(1), Garbage}

\* pool.free(origin, to_be_freed) is called directly: the lock is not yet taken
StartPoolFree(p, to_be_freed) ==
    /\ procs[p].pc = "idle"
    /\ procs' = [procs EXCEPT ![p] = [IdleProc EXCEPT !.pc = "free_lock", !.want = to_be_freed,
                                                      !.calls = procs[p].calls]]
    /\ UNCHANGED <<seqVars, locks, solveVars, counterVars>>

InitLock ==
    /\ SolveIdle
    /\ SeqIdle
    /\ ConcIdle
    /\ tokens \in {[t \in Tokens |-> IF t = "lac" THEN c ELSE Missing] : c \in LockFiles}

NextLock ==
    \/ \E want \in LockWants : StartReserve("p1", want)
    \/ \E h \in 1..Len(handles) : StartFree("p1", h)
    \/ \E to_be_freed \in LockFreeLists : StartPoolFree("p1", to_be_freed)
    \/ StartCounter("p2", "lac", 0)
    \/ \E p \in Procs : AcquireLock(p)
    \/ ReadState("p1")
    \/ ReserveWrite("p1")
    \/ FreeWrite("p1")
    \/ ReadToken("p2")
    \/ WriteToken("p2")
    \/ \E p \in Procs : ReleaseLock(p)

SpecLock == InitLock /\ [][NextLock]_vars

\* C16: the lock that reserve(), free() and next_<counter> take is released on
\* every exit path: once the call has returned or raised (NoResourceExn, drop of
\* an unknown resource, counter validation failure) the caller does not hold it,
\* and a later call of the caller that waits for the lock finds it free.
C16_LockReleasedOnEveryExit ==
    \A p \in Procs :
        procs[p].pc \in {"idle", "reserve_lock", "free_lock", "counter_lock"} =>
            lock(origin_id(p)) \notin locks

\* C16 witness: a free() has raised for an unknown resource and a next_lac() for a
\* corrupt counter file, both callers are back and no lock is held
C16_Witness ==
    /\ procs["p1"].pc = "idle"
    /\ procs["p1"].exn = "RuntimeError"
    /\ procs["p2"].pc = "idle"
    /\ procs["p2"].exn = "ValueError"
    /\ locks = {}

(***************************************************************************)
(* Properties of the counters, under SpecCounter.                          *)
(***************************************************************************)
\* C20: next_lac increments the persisted LAC modulo 2^16 and skips 0: from a
\* persisted 65535 it returns 1, from any other valid value v it returns v + 1,
\* what it returns is what it persists, and it never returns 0.
C20_NextLacSkipsZero ==
    [][\A p \in Procs :
          (procs[p].pc = "counter_write" /\ procs[p].token = "lac"
              /\ procs'[p].pc = "unlock") =>
             LET v == procs[p].value.v
             IN  /\ v \in 0..(2^16 - 1)
                 /\ procs'[p].ret = Text(IF v = 2^16 - 1 THEN 1 ELSE v + 1)
                 /\ procs'[p].ret # Text(0)
                 /\ tokens'["lac"] = procs'[p].ret]_vars

\* C20 witness: next_lac has read 65535 and returned 1
C20_Witness ==
    \E p \in Procs :
        /\ procs[p].token = "lac"
        /\ procs[p].value = Text(2^16 - 1)
        /\ procs[p].ret = Text(1)
        /\ tokens["lac"] = Text(1)

(***************************************************************************)
(* SpecExit: the processes call reserve() and free their handles, one call *)
(* at a time, and end: through the interpreter's exit path, which runs the  *)
(* handlers registered with atexit, or by a crash, which runs none.        *)
(***************************************************************************)
\* the `want` arguments of reserve(): one item, nothing at all, or a bts and an
\* empty list of modems
ExitWants ==
    { [bts |-> <<AnyItem>>],
      [modem |-> <<AnyItem>>],
      EmptyResources,
      [bts |-> <<AnyItem>>, modem |-> <<>>] }

Alive(p) == procs[p].pc = "idle"

\* ResourcesPool.clean_up_registered_resources: free() of the registry itself
clean_up_registered_resources(record, pool) ==
    IF ~Truthy(pool.remember)
    THEN [exn |-> "", written |-> FALSE, record |-> record, pool |-> pool]
    ELSE free(record, pool, pool.remember.res, TRUE)

\* the process starts to shut down through the interpreter's exit path
StartExit(p) ==
    /\ Alive(p)
    /\ procs' = [procs EXCEPT ![p].pc = "exiting"]
    /\ UNCHANGED <<seqVars, locks, solveVars, counterVars>>

\* the interpreter runs the handlers registered with atexit and the process ends
RunExitHandlers(p) ==
    /\ procs[p].pc = "exiting"
    /\ \E r \in {IF pools[p].registered
                 THEN clean_up_registered_resources(file, pools[p])
                 ELSE [exn |-> "", written |-> FALSE, record |-> file, pool |-> pools[p]]} :
          /\ file' = r.record
          /\ pools' = [pools EXCEPT ![p] = r.pool]
          /\ last' = Call("atexit", 0, r.exn, p,
                          IF pools[p].registered /\ Truthy(pools[p].remember)
                          THEN pools[p].remember.res ELSE EmptyResources,
                          VNone)
    /\ procs' = [procs EXCEPT ![p].pc = "exited"]
    /\ UNCHANGED <<handles, locks, solveVars, counterVars>>

\* the process ends without running its exit handlers
Crash(p) ==
    /\ Alive(p)
    /\ procs' = [procs EXCEPT ![p].pc = "crashed"]
    /\ UNCHANGED <<seqVars, locks, solveVars, counterVars>>

NextExit ==
    \/ \E p \in Procs, want \in ExitWants : Alive(p) /\ Reserve(p, want)
    \/ \E h \in 1..Len(handles) : Alive(handles[h].pool) /\ HandleFree(h)
    \/ \E p \in Procs : StartExit(p)
    \/ \E p \in Procs : RunExitHandlers(p)
    \/ \E p \in Procs : Crash(p)

SpecExit == Init /\ [][NextExit]_vars

\* the interpreter does run the exit handlers of a process that shuts down
SpecExitFair == SpecExit /\ \A p \in Procs : WF_vars(RunExitHandlers(p))

\* no item in the state file is reserved by process p
NoneReservedBy(p) ==
    \A k \in DOMAIN file : \A i \in 1..Len(file[k]) :
        file[k][i].reserved_by # origin_id(p)

\* C17: when a process shuts down through the interpreter's exit path with
\* reservations of its pool not freed, the exit handler removes them all:
\* eventually no item reserved by that pool remains in the state file.
C17_ExitHandlerFreesOutstanding ==
    \A p \in Procs : (procs[p].pc = "exiting") ~> NoneReservedBy(p)

\* a reservation granted by the pool of process p whose handle was not freed
Outstanding(p) ==
    \E h \in 1..Len(handles) : handles[h].pool = p /\ handles[h].reserved_original.set

\* C18: after every reserve() and free() on a pool the exit handler is registered
\* exactly when a reservation granted by the pool is outstanding: the first
\* successful reserve registers it and the free() that releases the last one
\* unregisters it, also when the reservation granted no items.
C18_ExitHandlerIffOutstanding ==
    \A p \in Procs : Alive(p) => (pools[p].registered <=> Outstanding(p))

\* the items a free() or an exit handler was asked to remove
FreedBy(call) == IF call.op = "atexit" THEN call.arg
                 ELSE IF call.arg.set THEN call.arg.res ELSE EmptyResources

\* C19: a reservation written by reserve() stays in the state file when the
\* reserving process ends without running its exit handler, and its items stay
\* unavailable to every reserve(): an item leaves the state file only by a free()
\* that names it, and reserve() grants no item that is in the state file.
C19_ReservationSurvivesCrash ==
    [][/\ (\E p \in Procs : procs[p].pc # "crashed" /\ procs'[p].pc = "crashed") =>
             file' = file
       /\ \A k \in Kinds : \A hash \in Hashes(file, k) :
             HashCount(file', k, hash) < HashCount(file, k, hash) =>
                /\ last'.op \in {"free", "atexit"}
                /\ hash \in Hashes(FreedBy(last'), k)
       /\ (last'.op = "reserve" /\ last'.exn = "" /\ Len(handles') > Len(handles)) =>
             \A k \in Kinds :
                Hashes(handles'[Len(handles')].reserved_original.res, k)
                    \cap Hashes(file, k) = {}]_vars

\* C19 witness: the process that reserved the bts has crashed, the bts is still in
\* the state file, and the other process was refused it
C19_Witness ==
    /\ procs["p1"].pc = "crashed"
    /\ Alive("p2")
    /\ \E i \in 1..Len(ListOf(file, "bts")) : file["bts"][i].reserved_by = origin_id("p1")
    /\ last.op = "reserve"
    /\ last.exn = "NoResourceExn"
    /\ DOMAIN last.arg = {"bts"}

\* ---------------------------------------------------------------------------
\* All next_<counter> operations, called one after the other by one process

\* the num_ports arguments tried for next_zmq_port_range
NumPorts == {1, 6, 150}

\* the operations with their arguments; only next_zmq_port_range takes num_ports
CounterCalls ==
    {<<c, 0>> : c \in Counters \ {"zmq"}} \cup {<<"zmq", n>> : n \in NumPorts}

\* contents of last_used_bvci.state that calls of next_bvci and
\* next_zmq_port_range reach from an absent file
BvciFiles == {Missing, Text(2), Text(2192), Text(2198), Text(2^16 - 2), Text(2^16 - 1)}

InitCounters ==
    /\ SolveIdle /\ SeqIdle /\ ConcIdle
    /\ tokens \in {[t \in Tokens |-> IF t = "bvci" THEN c ELSE Missing] : c \in BvciFiles}

NextCounters ==
    \/ \E call \in CounterCalls : StartCounter("p1", call[1], call[2])
    \/ AcquireLock("p1")
    \/ ReadToken("p1")
    \/ WriteToken("p1")
    \/ ReleaseLock("p1")

SpecCounters == InitCounters /\ [][NextCounters]_vars

\* what next_<counter> returns when called with the files as given: the
\* increment of the first value or of the file's content, or ValueError
NextReturn(files, counter, num_ports) ==
    LET content == files[token_of(counter)] IN
    IF content = Missing
    THEN Text(inc_func(counter, first_val(counter), num_ports))
    ELSE IF validate_func(counter, content)
         THEN Text(inc_func(counter, content.v, num_ports))
         ELSE [t |-> "ValueError"]

\* C21: a call of one next_<counter> leaves unchanged the value that the next
\* call of every other counter returns; in particular next_bvci and
\* next_zmq_port_range do not affect each other
C21_CountersIndependent ==
    [][\A p \in Procs :
        (procs[p].pc = "counter_write" /\ procs'[p].pc = "unlock")
        => \A call \in CounterCalls :
               call[1] # procs[p].counter
               => NextReturn(tokens', call[1], call[2])
                  = NextReturn(tokens, call[1], call[2])]_vars

\* C22: calls of next_lac by different origins are atomic read-increment-write
\* steps: the values two origins' latest calls returned differ, unless the
\* counter wrapped in one of the calls
C22_NoCounterValueTwice ==
    \A p \in Procs, q \in Procs :
        ( /\ p # q
          /\ procs[p].counter = "lac" /\ procs[q].counter = "lac"
          /\ procs[p].ret # VNone /\ procs[q].ret # VNone
          /\ procs[p].value # Text(2^16 - 1) /\ procs[q].value # Text(2^16 - 1) )
        => procs[p].ret # procs[q].ret

(***************************************************************************)
(* SpecMatch: item_matches applied to one item and one constraint, both    *)
(* mappings of scalars and nested mappings.                                *)
(***************************************************************************)
Bool(b) == [t |-> "bool", v |-> b]

\* the values an attribute of a nested mapping takes
AddrValues(key) ==
    IF key = "ip" THEN {VStr("10.0.0.1"), VStr("10.0.0.2")} ELSE {VStr("4729")}

\* the nested mappings: every choice of values for every subset of the keys
AddrDicts ==
    UNION {{VDict(f) : f \in {g \in [S -> UNION {AddrValues(k) : k \in S}] :
                                 \A k \in S : g[k] \in AddrValues(k)}} :
           S \in SUBSET {"ip", "port"}}

\* the values an attribute of an item or of a constraint takes
AttrValues(key) ==
    IF key = "type" THEN {VStr("sysmo"), VStr("oct")}
    ELSE IF key = "band" THEN {VStr("GSM-1800"), VStr("GSM-900")}
    ELSE AddrDicts \cup {VStr("any")}

\* the items and the constraints
MatchDicts ==
    UNION {{VDict(f) : f \in {g \in [S -> UNION {AttrValues(k) : k \in S}] :
                                 \A k \in S : g[k] \in AttrValues(k)}} :
           S \in SUBSET {"type", "band", "addr"}}

InitMatch ==
    /\ SolveIdle /\ ConcIdle /\ CounterIdle
    /\ file = EmptyResources
    /\ pools = [p \in Procs |-> NewPool]
    /\ handles = <<>>
    /\ last \in {Call("item", 0, "", "", <<item, want>>, VNone) :
                    item \in MatchDicts, want \in MatchDicts}

\* item_matches(item, wanted_item) is called on the two values drawn
ItemMatches ==
    /\ last.op = "item"
    /\ last' = [last EXCEPT !.op = "item_matches",
                            !.ret = Bool(item_matches(last.arg[1], last.arg[2]))]
    /\ UNCHANGED <<file, pools, handles, solveVars, concVars, counterVars>>

NextMatch == ItemMatches

SpecMatch == InitMatch /\ [][NextMatch]_vars

\* every attribute named in want is present in item with a matching value,
\* recursively for nested mappings
RECURSIVE HasAll(_, _)
HasAll(item, want) ==
    \A key \in DOMAIN want.v :
        /\ key \in DOMAIN item.v
        /\ IF is_dict(want.v[key])
           THEN is_dict(item.v[key]) /\ HasAll(item.v[key], want.v[key])
           ELSE item.v[key] = want.v[key]

\* C23: item_matches(item, want) holds exactly when every attribute named in want
\* is present in item with a matching value, recursively for nested mappings;
\* attributes of item that want does not name are ignored, the empty constraint
\* matches every item, and the item {type: sysmo, band: GSM-1800} matches
\* {type: sysmo} but not {type: sysmo, band: GSM-900}
C23_MatchIsContainment ==
    last.op = "item_matches" =>
        LET item == last.arg[1]
            want == last.arg[2]
        IN  /\ last.ret.v <=> HasAll(item, want)
            /\ want = AnyItem => last.ret.v
            /\ (\A key \in DOMAIN want.v : key \in DOMAIN item.v /\ item.v[key] = want.v[key])
               => last.ret.v
            /\ item = VDict([type |-> VStr("sysmo"), band |-> VStr("GSM-1800")])
               => /\ want = Typed("sysmo") => last.ret.v
                  /\ want = VDict([type |-> VStr("sysmo"), band |-> VStr("GSM-900")])
                     => ~last.ret.v

\* C23 witness: an item with a nested mapping and attributes the constraint does
\* not name has matched a constraint that names part of the nested mapping
C23_Witness ==
    /\ last.op = "item_matches"
    /\ last.arg[1] = VDict([type |-> VStr("sysmo"), band |-> VStr("GSM-1800"),
                            addr |-> VDict([ip |-> VStr("10.0.0.1"), port |-> VStr("4729")])])
    /\ last.arg[2] = VDict([type |-> VStr("sysmo"), addr |-> VDict([ip |-> VStr("10.0.0.1")])])
    /\ last.ret.v

(***************************************************************************)
(* SpecMatchLists: item_matches applied to two list-valued attributes.     *)
(* Both lists hold elements of one type, as                                *)
(* util.list_validate_same_elem_type expects.                              *)
(***************************************************************************)
MaxLen == 2

ListsOf(E) == {VList(q) : q \in UNION {[1..n -> E] : n \in 0..MaxLen}}

\* lists of scalars
ScalarLists == ListsOf({VStr("a5_0"), VStr("a5_1")})

\* lists of mappings
DictLists ==
    ListsOf({AnyItem, VDict([nominal_power |-> VStr("10")]),
             VDict([nominal_power |-> VStr("20")])})

\* lists of lists
NestedLists == ListsOf({VList(<<>>), VList(<<VStr("a5_0")>>)})

\* an item's value and a wanted list of the same element type; the item's value
\* may also be absent (None) or a scalar
ListPairs ==
    (ScalarLists \X ScalarLists) \cup (DictLists \X DictLists)
    \cup (NestedLists \X NestedLists)
    \cup ({VNone, VStr("a5_0")} \X (ScalarLists \cup DictLists))

InitMatchLists ==
    /\ SolveIdle /\ ConcIdle /\ CounterIdle
    /\ file = EmptyResources
    /\ pools = [p \in Procs |-> NewPool]
    /\ handles = <<>>
    /\ last \in {Call("item", 0, "", "", pair, VNone) : pair \in ListPairs}

SpecMatchLists == InitMatchLists /\ [][NextMatch]_vars

\* every wanted scalar occurs in the item's list
ScalarsOccur(item, want) ==
    \A i \in 1..Len(want.v) : \E j \in 1..Len(item.v) : item.v[j] = want.v[i]

\* the elements at one position match: mappings by containment, lists of scalars
\* as sets
ElementMatches(item, want) ==
    IF is_dict(want) THEN is_dict(item) /\ HasAll(item, want)
    ELSE is_list(item) /\ ScalarsOccur(item, want)

\* the item's element at a position, the empty instance of the type past its end
ElementAt(item, i, want) ==
    IF i <= Len(item.v) THEN item.v[i]
    ELSE IF is_dict(want) THEN VDict(EmptyDict) ELSE VList(<<>>)

\* C24 as stated: lists of scalars match as unordered sets, lists of structured
\* elements element-wise by position, and an empty list on either side matches
C24_EmptyListOnEitherSideMatches ==
    (last.op = "item_matches" /\ is_list(last.arg[1]) /\ is_list(last.arg[2]))
    => ((Len(last.arg[1].v) = 0 \/ Len(last.arg[2].v) = 0) => last.ret.v)

\* C24: for list-valued attributes, lists of scalars match as unordered sets
\* (every wanted scalar occurs in the item's list), lists of structured elements
\* match element-wise by position, an empty wanted list matches every list, and
\* an empty list of the item matches only wanted elements that the empty instance
\* matches; a value that is no list matches no wanted list
C24_ListsMatch ==
    last.op = "item_matches" =>
        LET item == last.arg[1]
            want == last.arg[2]
        IN  IF ~is_list(item) THEN ~last.ret.v
            ELSE /\ Len(want.v) = 0 => last.ret.v
                 /\ <<item, want>> \in ScalarLists \X ScalarLists
                    => (last.ret.v <=> ScalarsOccur(item, want))
                 /\ <<item, want>> \in (DictLists \X DictLists) \cup (NestedLists \X NestedLists)
                    => (last.ret.v <=>
                          \A i \in 1..Len(want.v) :
                             ElementMatches(ElementAt(item, i, want.v[i]), want.v[i]))
                 /\ (Len(item.v) = 0 /\ Len(want.v) > 0)
                    => (last.ret.v <=>
                          \A i \in 1..Len(want.v) :
                             want.v[i] \in {VDict(EmptyDict), VList(<<>>)})

\* C24 witness: a list of scalars has matched a wanted list that names the same
\* scalars in another order
C24_Witness ==
    /\ last.op = "item_matches"
    /\ last.arg[1] = VList(<<VStr("a5_0"), VStr("a5_1")>>)
    /\ last.arg[2] = VList(<<VStr("a5_1"), VStr("a5_0")>>)
    /\ last.ret.v

\* the candidate lists find() builds for one kind
CandidatesOf(my_list, want_list) ==
    [s \in 1..Len(want_list) |-> item_match_list(my_list, want_list[s], FALSE)]

\* the kinds of want, in sorted order, that precede kind k
KindsBefore(want, k) ==
    {Keys(want)[i] : i \in {j \in 1..Len(Keys(want)) :
                               \E n \in (j + 1)..Len(Keys(want)) : Keys(want)[n] = k}}

\* every slot of the kind has a candidate, and the solver finds an assignment
Solvable(my_list, want_list) ==
    /\ \A s \in 1..Len(want_list) : CandidatesOf(my_list, want_list)[s] # <<>>
    /\ want_list # <<>> => solve(CandidatesOf(my_list, want_list)).exn = ""

\* C25: the solver's NotSolvable never comes out of find(), reserve() or get(): the
\* caller gets a NoResourceExn that names the kind and the list of constraints
\* requested for it; and find() never calls the solver with an empty list of
\* slots, so the solver's RuntimeError never comes out either
C25_NotSolvableBecomesNoResourceExn ==
    [][(last' # last /\ last'.op \in {"reserve", "get"}) =>
          /\ last'.exn \in {"", "NoResourceExn"}
          /\ last'.op = "reserve" =>
                LET want == last'.arg
                    avail == without(all_resources, file).res
                    listOf(k) == IF k \in DOMAIN avail THEN avail[k] ELSE <<>>
                IN  /\ find(avail, want, FALSE, TRUE).exn \in {"", "NoResourceExn"}
                    /\ find(avail, want, FALSE, FALSE).exn \in {"", "NoResourceExn"}
                    /\ \A k \in DOMAIN want :
                          ( /\ \A b \in KindsBefore(want, k) : Solvable(listOf(b), want[b])
                            /\ \A s \in 1..Len(want[k]) :
                                  CandidatesOf(listOf(k), want[k])[s] # <<>>
                            /\ want[k] # <<>>
                            /\ solve(CandidatesOf(listOf(k), want[k])).exn = "NotSolvable" )
                          => /\ last'.exn = "NoResourceExn"
                             /\ find_raised(avail, want, FALSE, TRUE)
                                = [kind |-> k, requirements |-> want[k]]]_vars

\* C25 witness: a reserve() has failed because the solver found no assignment for
\* the two modems wanted of type a; the caller got a NoResourceExn
C25_Witness ==
    /\ last.op = "reserve"
    /\ last.arg = [bts |-> <<AnyItem>>, modem |-> <<Typed("a"), Typed("a")>>]
    /\ last.why = "not_solvable"
    /\ last.exn = "NoResourceExn"

\* the next_<counter> operations called one after the other, no counter file
\* existing at the start
SpecFromAbsent == Init /\ [][NextCounters]_vars

\* C26: starting from an absent counter file, every next_zmq_port_range(origin,
\* num_ports) returns a base with 2000 <= base and base + num_ports <= 2200,
\* num_ports rounded up to even
C26_PortRangeWithinBounds ==
    [][\A p \in Procs :
        (procs[p].pc = "counter_write" /\ procs'[p].pc = "unlock"
         /\ procs[p].counter = "zmq")
        => /\ 2000 <= procs'[p].ret.v
           /\ procs'[p].ret.v + even_ports(procs[p].num_ports) <= 2200]_vars

\* C27: next_bvci never returns 0 or 1: it returns v + 1 for a persisted value v
\* below 65535 and wraps from 65535 to 2; the persisted values are those that
\* calls reach from an absent counter file
C27_NextBvciSkipsZeroAndOne ==
    [][\A p \in Procs :
        (procs[p].pc = "counter_write" /\ procs'[p].pc = "unlock"
         /\ procs[p].counter = "bvci")
        => /\ procs'[p].ret.v \notin {0, 1}
           /\ procs'[p].ret = tokens'["bvci"]
           /\ procs[p].value.v = (IF tokens["bvci"] = Missing THEN 2 ELSE tokens["bvci"].v)
           /\ procs'[p].ret.v = IF procs[p].value.v < 65535
                                THEN procs[p].value.v + 1 ELSE 2]_vars

\* C27 witness: next_bvci has read 65535 and returned 2
C27_Witness ==
    \E p \in Procs :
        /\ procs[p].counter = "bvci"
        /\ procs[p].value = Text(65535)
        /\ procs[p].ret = Text(2)

\* the positions of the items of a list that contain the constraints, used or not
MatchingPositions(list, specifics) ==
    {i \in 1..Len(list) : HasAll(VDict(list[i].attrs), specifics)}

\* C28: the message of a failed get(kind, constraints) names exactly one of three
\* causes: 'none of the reserved resources matches' exactly when no reserved item
\* of the kind contains the constraints, used or not; 'reserved only N x kind'
\* exactly when some reserved item matches and every reserved item of the kind is
\* marked used; 'match the requirements, but all are already in use' exactly when
\* some item matches, every matching item is used and a reserved item of the kind
\* is unused
C28_FailedGetNamesTheCause ==
    [][(last' # last /\ last'.op = "get" /\ last'.exn # "") =>
          LET list == ListOf(handles[last'.h].reserved, last'.arg.kind)
              matching == MatchingPositions(list, last'.arg.specifics)
              all_used == \A i \in 1..Len(list) : list[i].used
          IN  /\ last'.exn = "NoResourceExn"
              /\ last'.why \in {"none_match", "reserved_only", "all_in_use"}
              /\ last'.why = "none_match" <=> matching = {}
              /\ last'.why = "reserved_only" <=> (matching # {} /\ all_used)
              /\ last'.why = "all_in_use"
                 <=> ( /\ matching # {}
                       /\ \A i \in matching : list[i].used
                       /\ ~all_used )
              /\ handles' = handles]_vars

\* C28 witness: of two modems reserved the one of type a is in use and the other
\* is not; a get('modem', {type: a}) has failed saying all matching are in use
C28_Witness ==
    /\ last.op = "get"
    /\ last.exn = "NoResourceExn"
    /\ last.why = "all_in_use"
    /\ last.arg.kind = "modem"
    /\ last.arg.specifics = Typed("a")
    /\ \E i \in 1..Len(handles[last.h].reserved["modem"]) :
          ~handles[last.h].reserved["modem"][i].used

\* the positions of the items of a list that are not marked used and contain the
\* constraints
UnusedMatching(list, specifics) ==
    {i \in MatchingPositions(list, specifics) : ~list[i].used}

\* C29: a successful get(kind, constraints) returns the item at the lowest
\* position among the handle's items of the kind that are not marked used and
\* contain the constraints, and marks it used; get succeeds exactly when there is
\* such an item, so the outcome depends on the handle's record and the
\* constraints only
C29_GetPicksLowestUnusedMatch ==
    [][(last' # last /\ last'.op = "get") =>
          LET list == ListOf(handles[last'.h].reserved, last'.arg.kind)
              candidates == UnusedMatching(list, last'.arg.specifics)
          IN  /\ last'.exn = "" <=> candidates # {}
              /\ last'.exn = "" =>
                    /\ last'.arg.pos = Min(candidates)
                    /\ last'.ret = [list[Min(candidates)] EXCEPT !.used = TRUE]
                    /\ handles'[last'.h].reserved =
                          [handles[last'.h].reserved EXCEPT
                              ![last'.arg.kind][Min(candidates)].used = TRUE]
              /\ UNCHANGED <<file, pools>>]_vars

\* C29 witness: of two reserved modems that both were unused and match, a
\* get('modem') has returned the first; the second is still unused
C29_Witness ==
    /\ last.op = "get"
    /\ last.exn = ""
    /\ last.arg.kind = "modem"
    /\ last.arg.specifics = AnyItem
    /\ last.arg.pos = 1
    /\ Len(handles[last.h].reserved["modem"]) = 2
    /\ ~handles[last.h].reserved["modem"][2].used

(***************************************************************************)
(* SpecFind: Resources.find applied to a Resources dict and a `want`, with *)
(* skip_if_marked and raise_if_missing on or off.                          *)
(***************************************************************************)
\* the lists a Resources dict holds for a kind: the catalog's items at a set of
\* positions, in catalog order, some of them marked used
FindLists(k) ==
    {[i \in 1..Len(SortedSeq(S)) |->
         [all_resources[k][SortedSeq(S)[i]] EXCEPT !.used = SortedSeq(S)[i] \in U]] :
     S \in SUBSET (1..Len(all_resources[k])), U \in SUBSET (1..Len(all_resources[k]))}

\* the Resources dicts find() is called on
FindSelves == {r \in [Kinds -> UNION {FindLists(k) : k \in Kinds}] :
                  \A k \in Kinds : r[k] \in FindLists(k)}

\* the `want` arguments of find()
FindWants ==
    Wants \cup { [bts |-> <<Typed("trx")>>, modem |-> <<AnyItem>>],
                 [bts |-> <<AnyItem>>, modem |-> <<Typed("b"), AnyItem>>],
                 [bts |-> <<AnyItem, AnyItem>>, modem |-> <<AnyItem, AnyItem>>],
                 [bts |-> <<>>, modem |-> <<Typed("c"), AnyItem>>] }

InitFind ==
    /\ SolveIdle /\ ConcIdle /\ CounterIdle
    /\ file = EmptyResources
    /\ pools = [p \in Procs |-> NewPool]
    /\ handles = <<>>
    /\ last \in {Call("find_input", 0, "", "",
                      [self |-> self, want |-> want, skip_if_marked |-> skip,
                       raise_if_missing |-> raise], VNone) :
                    self \in FindSelves, want \in FindWants,
                    skip \in BOOLEAN, raise \in BOOLEAN}

\* self.find(origin, want, skip_if_marked, raise_if_missing) is called on the
\* values drawn; ret holds the Resources returned and the positions picked
Find ==
    /\ last.op = "find_input"
    /\ \E f \in {find(last.arg.self, last.arg.want, last.arg.skip_if_marked,
                      last.arg.raise_if_missing)} :
       \E fi \in {find_idx(last.arg.self, last.arg.want, last.arg.skip_if_marked,
                           last.arg.raise_if_missing)} :
          last' = [last EXCEPT !.op = "find", !.exn = f.exn, !.why = f.why,
                               !.ret = [res |-> f.res, idx |-> fi.idx]]
    /\ UNCHANGED <<file, pools, handles, solveVars, concVars, counterVars>>

NextFind == Find

SpecFind == InitFind /\ [][NextFind]_vars

\* the slot's constraint has no candidate in the list
NoCandidate(list, want_item, skip_if_marked) ==
    \A i \in 1..Len(list) :
        (skip_if_marked /\ list[i].used) \/ ~HasAll(VDict(list[i].attrs), want_item)

\* C30: for every kind k of want, a find() that returns gives either exactly
\* len(want[k]) items taken from pairwise distinct positions of its list, the i-th
\* containing the i-th constraint, or, with raise_if_missing off and a slot of k
\* without candidate, the empty list for k while the other kinds are still
\* matched; never a non-empty result shorter than the request
C30_FindAllOrNothingPerKind ==
    (last.op = "find" /\ last.exn = "") =>
        LET self == last.arg.self
            want == last.arg.want
            skip == last.arg.skip_if_marked
        IN  /\ DOMAIN last.ret.res = DOMAIN want
            /\ \A k \in DOMAIN want :
                  LET got == last.ret.res[k]
                      idx == last.ret.idx[k]
                      no_candidate == \E s \in 1..Len(want[k]) :
                                          NoCandidate(self[k], want[k][s], skip)
                  IN  /\ got # <<>> => Len(got) = Len(want[k])
                      /\ no_candidate => (got = <<>> /\ ~last.arg.raise_if_missing)
                      /\ ~no_candidate =>
                            /\ Len(got) = Len(want[k])
                            /\ Len(idx) = Len(got)
                            /\ Injective(idx)
                            /\ \A i \in 1..Len(got) :
                                  /\ idx[i] + 1 \in 1..Len(self[k])
                                  /\ got[i] = self[k][idx[i] + 1]
                                  /\ HasAll(VDict(got[i].attrs), want[k][i])
                                  /\ skip => ~got[i].used

\* C30 witness: with raise_if_missing off, find() has returned an empty list for
\* bts, whose constraint no item meets, and the two modems asked for
C30_Witness ==
    /\ last.op = "find"
    /\ last.exn = ""
    /\ ~last.arg.raise_if_missing
    /\ last.arg.want = [bts |-> <<AnyItem>>, modem |-> <<Typed("b"), AnyItem>>]
    /\ last.arg.self["bts"] = <<>>
    /\ last.ret.res["bts"] = <<>>
    /\ Len(last.ret.res["modem"]) = 2

(***************************************************************************)
(* Further properties of put(), of the record, of the exit handler and of *)
(* the counters.                                                           *)
(***************************************************************************)
\* C31: put(item) changes the used mark of the reserved instance with item's hash
\* only: every other instance of the handle, of the same or another kind, keeps
\* its used mark, and put() marks no further instance used; checked for the put()
\* of an item that the handle holds marked used
C31_PutChangesOnlyItsItem ==
    [][(/\ last'.op = "put" /\ last' # last
        /\ \E k \in DOMAIN handles[last'.h].reserved :
              \E i \in 1..Len(handles[last'.h].reserved[k]) :
                  /\ handles[last'.h].reserved[k][i].hash = last'.arg.hash
                  /\ handles[last'.h].reserved[k][i].used) =>
          /\ DOMAIN handles'[last'.h].reserved = DOMAIN handles[last'.h].reserved
          /\ \A k \in DOMAIN handles[last'.h].reserved :
                /\ Len(handles'[last'.h].reserved[k]) = Len(handles[last'.h].reserved[k])
                /\ \A i \in 1..Len(handles[last'.h].reserved[k]) :
                      /\ handles[last'.h].reserved[k][i].hash # last'.arg.hash
                         => handles'[last'.h].reserved[k][i].used
                            = handles[last'.h].reserved[k][i].used
                      /\ handles'[last'.h].reserved[k][i].used
                         => handles[last'.h].reserved[k][i].used]_vars

\* C32: under sequential reserve() and free() calls from an absent state file,
\* every item of the record carries a hash and the origin id of the reserve() that
\* added it (the reservation that holds the item), and for each hash the record
\* holds no more items than the catalog
C32_RecordItemsStampedAndBounded ==
    /\ \A k \in DOMAIN file : \A i \in 1..Len(file[k]) :
          /\ file[k][i].hash # NoHash
          /\ file[k][i].hash = hash_obj(file[k][i].attrs)
          /\ \E h \in 1..Len(handles) :
                /\ handles[h].reserved_original.set
                /\ file[k][i].reserved_by = origin_id(handles[h].pool)
                /\ \E j \in 1..Len(ListOf(handles[h].reserved_original.res, k)) :
                      handles[h].reserved_original.res[k][j] = file[k][i]
    /\ \A k \in Kinds : \A hash \in Hashes(file, k) :
          HashCount(file, k, hash) <= HashCount(all_resources, k, hash)

\* C32 witness: the record holds a bts reserved by one origin and a modem reserved
\* by the other
C32_Witness ==
    /\ last.op = "reserve"
    /\ "bts" \in DOMAIN file /\ "modem" \in DOMAIN file
    /\ \E i \in 1..Len(file["bts"]), j \in 1..Len(file["modem"]) :
          /\ file["bts"][i].reserved_by = origin_id("p1")
          /\ file["modem"][j].reserved_by = origin_id("p2")

\* running clean_up_registered_resources on this record and pool raises no error
\* and leaves the record as it is
CleanUpIsNoOp(record, pool) ==
    /\ clean_up_registered_resources(record, pool).exn = ""
    /\ clean_up_registered_resources(record, pool).record = record

\* the hashes of the items of kind k that reservations of process p still hold
HeldHashes(p, k) ==
    UNION {Hashes(handles[h].reserved_original.res, k) :
              h \in {g \in 1..Len(handles) : handles[g].pool = p
                                             /\ handles[g].reserved_original.set}}

\* the hashes of the items of kind k that a free() of a handle of process p has
\* released and that no reservation of p holds again
ReleasedHashes(p, k) ==
    UNION {Hashes(handles[h].reserved, k) :
              h \in {g \in 1..Len(handles) : handles[g].pool = p
                                             /\ ~handles[g].reserved_original.set}}
    \ HeldHashes(p, k)

NextPorts ==
    \/ \E p \in Procs, n \in NumPorts :
          /\ \A q \in Procs : procs[q].pc = "idle"
          /\ StartCounter(p, "zmq", n)
    \/ \E p \in Procs : AcquireLock(p)
    \/ \E p \in Procs : ReadToken(p)
    \/ \E p \in Procs : WriteToken(p)
    \/ \E p \in Procs : ReleaseLock(p)

SpecPorts == Init /\ [][NextPorts]_vars

\* C34: the port ranges that successive next_zmq_port_range calls hand out, with
\* no wrap back to 2000 in between, are disjoint: when the call of q followed the
\* call of p (it read the base p wrote) and did not wrap, the range
\* [base, base + num_ports) of p ends at or before the base of q
C34_PortRangesDisjoint ==
    \A p \in Procs, q \in Procs :
        ( /\ p # q
          /\ procs[p].pc = "idle" /\ procs[q].pc = "idle"
          /\ procs[p].counter = "zmq" /\ procs[q].counter = "zmq"
          /\ procs[p].ret # VNone /\ procs[q].ret # VNone
          /\ procs[q].value = procs[p].ret
          /\ procs[q].ret.v > procs[q].value.v )
        => procs[p].ret.v + even_ports(procs[p].num_ports) <= procs[q].ret.v

\* C35: every next_<counter> call persists exactly the value it returns, in its
\* own file only, and the following call on that file returns its counter's
\* increment function applied to that value; with the file absent the call
\* behaves as if the file held the counter's default, so the first value handed
\* out is the increment of the default (LAC 2), not the default
C35_CounterPersistsWhatItReturns ==
    [][\A p \in Procs :
        (procs[p].pc = "counter_write" /\ procs'[p].pc = "unlock") =>
           LET counter == procs[p].counter
               token == token_of(counter)
           IN  /\ tokens'[token] = procs'[p].ret
               /\ \A t \in Tokens \ {token} : tokens'[t] = tokens[t]
               /\ \A call \in CounterCalls :
                     token_of(call[1]) = token =>
                        NextReturn(tokens', call[1], call[2])
                        = (IF validate_func(call[1], procs'[p].ret)
                           THEN Text(inc_func(call[1], procs'[p].ret.v, call[2]))
                           ELSE [t |-> "ValueError"])
               /\ tokens[token] = Missing =>
                     /\ procs[p].value = Text(first_val(counter))
                     /\ procs'[p].ret
                        = Text(inc_func(counter, first_val(counter), procs[p].num_ports))
                     /\ procs'[p].ret
                        = NextReturn([tokens EXCEPT ![token] = Text(first_val(counter))],
                                     counter, procs[p].num_ports)
                     /\ counter = "lac" => procs'[p].ret = Text(2)
               /\ tokens[token] # Missing =>
                     procs'[p].ret
                     = Text(inc_func(counter, tokens[token].v, procs[p].num_ports))]_vars

\* C35 witness: next_lac, called with no counter file, has returned 2 and the
\* file holds 2
C35_Witness ==
    \E p \in Procs :
        /\ procs[p].counter = "lac"
        /\ procs[p].value = Text(1)
        /\ procs[p].ret = Text(2)
        /\ tokens["lac"] = Text(2)

(***************************************************************************)
(* SpecSuite: one SuiteRun calls run_tests.  The suite's pool is the       *)
(* resource pool modelled above, called without modifiers; the state file  *)
(* starts absent.  procs[p].h is the suite's reserved_resources (0 for     *)
(* None), procs[p].want its resource_requirements(), procs[p].exn the      *)
(* exception that run_tests lets through.                                  *)
(***************************************************************************)
MaxTests == 2

\* suite.conf's resource requirements; the last one cannot be satisfied
SuiteWants ==
    { [bts |-> <<AnyItem>>],
      [modem |-> <<AnyItem, Typed("a")>>],
      [bts |-> <<AnyItem>>, modem |-> <<Typed("a"), Typed("a")>>] }

\* how Test.run leaves the status: pass, FAIL (set_fail by the script or an
\* Exception), or skip set by the script
TestOutcomes == {"pass", "FAIL", "skip"}

\* the suites: some tests, all UNKNOWN, and the tests named to run_tests
Suites ==
    UNION {{[NoSuite EXCEPT !.tests = [i \in 1..n |-> "UNKNOWN"], !.names = names] :
               names \in SUBSET (1..n)} : n \in 0..MaxTests}

InitSuite ==
    /\ SolveIdle /\ SeqIdle /\ CounterIdle
    /\ locks = {}
    /\ procs \in {[p \in Procs |-> IF p = "p1"
                                  THEN [IdleProc EXCEPT !.suite = suite, !.want = want]
                                  ELSE IdleProc] :
                     suite \in Suites, want \in SuiteWants}

\* SuiteRun.count_test_results
count_test_results(tests) ==
    [passed  |-> Cardinality({i \in 1..Len(tests) : tests[i] = "pass"}),
     failed  |-> Cardinality({i \in 1..Len(tests) : tests[i] = "FAIL"}),
     skipped |-> Cardinality({i \in 1..Len(tests) : tests[i] \notin {"pass", "FAIL"}})]

\* Variant of the status computed at the end of run_tests: PASS when nothing failed
suite_status_unless_failed(tests) ==
    IF ~(count_test_results(tests).failed > 0) THEN "PASS" ELSE "FAIL"

\* run_tests, lines 257-261: if passed and not failed: PASS, else FAIL
suite_status(tests) ==
    IF count_test_results(tests).passed > 0 /\ ~(count_test_results(tests).failed > 0)
    THEN "PASS" ELSE "FAIL"

\* run_tests begins: mark_start() sets the status to UNKNOWN
MarkStart(p) ==
    /\ procs[p].pc = "idle"
    /\ procs' = [procs EXCEPT ![p].pc = "suite_reserve",
                              ![p].suite.status = "UNKNOWN"]
    /\ UNCHANGED <<seqVars, locks, solveVars, counterVars>>

\* SuiteRun.reserve_resources called by the owner of the suite before run_tests;
\* its exception goes to that caller and run_tests is not called
reserve_resources(p) ==
    /\ procs[p].pc = "idle"
    /\ procs[p].h = 0
    /\ \E r \in {reserve(file, pools[p], origin_id(p), procs[p].want)} :
          /\ file' = r.record
          /\ pools' = [pools EXCEPT ![p] = r.pool]
          /\ handles' = IF r.exn = ""
                        THEN Append(handles, NewHandle(p, r.to_be_reserved, NoModifiers))
                        ELSE handles
          /\ last' = Call("reserve", IF r.exn = "" THEN Len(handles) + 1 ELSE 0,
                          r.exn, r.why, procs[p].want, VNone)
          /\ procs' = [procs EXCEPT ![p].pc = IF r.exn = "" THEN "idle"
                                              ELSE "suite_raised",
                                    ![p].exn = r.exn,
                                    ![p].h = IF r.exn = "" THEN Len(handles) + 1 ELSE 0]
    /\ UNCHANGED <<locks, solveVars, counterVars>>

\* run_tests with reserved_resources already set goes on to the tests
SuiteReserved(p) ==
    /\ procs[p].pc = "suite_reserve"
    /\ procs[p].h # 0
    /\ procs' = [procs EXCEPT ![p].pc = "suite_tests"]
    /\ UNCHANGED <<seqVars, locks, solveVars, counterVars>>

\* if not self.reserved_resources: self.reserve_resources().  A NoResourceExn is
\* an Exception: run_tests logs it and goes to the finally block
SuiteReserve(p) ==
    /\ procs[p].pc = "suite_reserve"
    /\ procs[p].h = 0
    /\ \E r \in {reserve(file, pools[p], origin_id(p), procs[p].want)} :
          /\ file' = r.record
          /\ pools' = [pools EXCEPT ![p] = r.pool]
          /\ handles' = IF r.exn = ""
                        THEN Append(handles, NewHandle(p, r.to_be_reserved, NoModifiers))
                        ELSE handles
          /\ last' = Call("reserve", IF r.exn = "" THEN Len(handles) + 1 ELSE 0,
                          r.exn, r.why, procs[p].want, VNone)
          /\ procs' = [procs EXCEPT ![p].pc = IF r.exn = "" THEN "suite_tests"
                                              ELSE "suite_finally",
                                    ![p].h = IF r.exn = "" THEN Len(handles) + 1 ELSE 0]
    /\ UNCHANGED <<locks, solveVars, counterVars>>

\* the loop over self.tests: a test not named is skipped, another one is run
SuiteTest(p) ==
    /\ procs[p].pc = "suite_tests"
    /\ \E suite \in {procs[p].suite} :
          IF suite.next > Len(suite.tests)
          THEN procs' = [procs EXCEPT ![p].pc = "suite_finally"]
          ELSE IF suite.names # {} /\ suite.next \notin suite.names
          THEN procs' = [procs EXCEPT ![p].suite.tests[suite.next] = "skip",
                                      ![p].suite.next = suite.next + 1]
          ELSE \E outcome \in TestOutcomes :
                  procs' = [procs EXCEPT ![p].suite.tests[suite.next] = outcome,
                                         ![p].suite.next = suite.next + 1]
    /\ UNCHANGED <<seqVars, locks, solveVars, counterVars>>

\* Variant of the abort that leaves run_tests without its finally block
SuiteAbort_without_finally(p) ==
    /\ procs[p].pc \in {"suite_reserve", "suite_tests"}
    /\ procs' = [procs EXCEPT ![p].pc = "suite_done", ![p].exn = "BaseException"]
    /\ UNCHANGED <<seqVars, locks, solveVars, counterVars>>

\* a BaseException (SystemExit from a signal handler, KeyboardInterrupt) strikes
\* before the reservation or in a test, whose status stays UNKNOWN: run_tests
\* reports it, re-raises and runs its finally block
SuiteAbort(p) ==
    /\ procs[p].pc \in {"suite_reserve", "suite_tests"}
    /\ procs' = [procs EXCEPT ![p].pc = "suite_finally", ![p].exn = "BaseException"]
    /\ UNCHANGED <<seqVars, locks, solveVars, counterVars>>

\* the finally block: free_resources(), then the status from the test results.
\* An exception of free() leaves the block before the status is set.
SuiteFinally(p) ==
    /\ procs[p].pc = "suite_finally"
    /\ IF procs[p].h = 0
       THEN /\ procs' = [procs EXCEPT ![p].pc = "suite_done",
                                      ![p].suite.freed = TRUE,
                                      ![p].suite.status = suite_status(procs[p].suite.tests)]
            /\ UNCHANGED <<file, pools, handles, last>>
       ELSE \E hd \in {handles[procs[p].h]} :
            \E r \in {IF Truthy(hd.reserved_original)
                      THEN free(file, pools[p], hd.reserved_original.res, FALSE)
                      ELSE [exn |-> "", written |-> FALSE, record |-> file,
                            pool |-> pools[p]]} :
               /\ file' = r.record
               /\ pools' = [pools EXCEPT ![p] = r.pool]
               /\ handles' = IF r.exn = ""
                             THEN [handles EXCEPT ![procs[p].h].reserved_original
                                                      = NoneResources]
                             ELSE handles
               /\ last' = Call("free", procs[p].h, r.exn, "", hd.reserved_original, VNone)
               /\ procs' = [procs EXCEPT
                               ![p].pc = "suite_done",
                               ![p].suite.freed = TRUE,
                               ![p].exn = IF r.exn # "" THEN r.exn ELSE @,
                               ![p].suite.status =
                                   IF r.exn # "" THEN @
                                   ELSE suite_status(procs[p].suite.tests)]
    /\ UNCHANGED <<locks, solveVars, counterVars>>

NextSuite ==
    \/ reserve_resources("p1")
    \/ MarkStart("p1")
    \/ SuiteReserved("p1")
    \/ SuiteReserve("p1")
    \/ SuiteTest("p1")
    \/ SuiteAbort("p1")
    \/ SuiteFinally("p1")

SpecSuite == InitSuite /\ [][NextSuite]_vars

====
